---- MODULE Spec2Model ----
(***************************************************************************)
(* A model of the rt client library (wylee/rt):                            *)
(*   - the task dispatch engine of rt/frontend.py (RTFrontEnd, Worker,     *)
(*     Task) together with the session flag of rt/session.py it drives;    *)
(*   - the record parser / serializer of rt/data.py;                       *)
(*   - the response envelope parser of rt/response.py;                     *)
(*   - the session of rt/session.py (login, logout, request).              *)
(* The dispatch engine is a state machine (specification Spec, and         *)
(* FairSpec with fair scheduling). The parsers, the serializer, the        *)
(* custom-field view and the session calls are operators computed as the   *)
(* code computes them; SpecRoundTrip, SpecMultipart,                       *)
(* SpecMultipartRoundTrip, SpecResponse, SpecFromLines, SpecCustomFields,  *)
(* SpecCustomFieldView, SpecToCfName and SpecSession run them on inputs    *)
(* drawn from bounded sets; SpecTask runs Task.set_result from several     *)
(* threads.                                                                *)
(***************************************************************************)
EXTENDS Integers, Sequences, FiniteSets, TLC

(***************************************************************************)
(* Bounds of the model.                                                    *)
(***************************************************************************)
\* Number of submitting threads; each one calls add_task_and_wait_for_result
\* once, so this is also the number of tasks ever created.
MaxTasks == 2
\* Number of Worker objects that can ever be constructed (initial + replaced).
MaxWorkers == 3
\* The monotonic clock runs from 0 to MaxTime.
MaxTime == 1
\* worker_lifetime, in clock ticks.
WorkerLifetime == 1

\* Default pool size, RTFrontEnd.__init__(num_workers=2).
NumWorkers == 2

Tasks == 1..MaxTasks
WorkerIds == 1..MaxWorkers

VARIABLES
    \* -- RTFrontEnd ------------------------------------------------------
    workers,        \* self.workers: sequence of worker ids
    task_queue,     \* self.task_queue: FIFO of task ids
    worker_lock,    \* self.worker_lock: 0 when free, else the holder (a caller)
    nworkers,       \* number of Worker objects constructed so far
    \* -- Worker (indexed by worker id) -----------------------------------
    wpc,            \* position of the worker thread in Worker.run
    killed,         \* Worker.killed
    expires_at,     \* Worker.expires_at
    logged_in,      \* wrapped.session.logged_in of the worker's own RTInterface
    wtask,          \* local variable task of Worker.run (0: not bound yet);
                    \* it keeps the last task until the next one is dequeued
    wresult,        \* local variable result of Worker.run
    \* -- Task (indexed by task id) ---------------------------------------
    task_result,    \* Task.result
    task_ready,     \* Task.ready (Event)
    \* -- callers (indexed by task id: caller t submits task t) -----------
    cpc,            \* position of the caller in add_task_and_wait_for_result
    new_workers,    \* local variable new_workers of check_workers
    observed,       \* what get_result returned or raised to the caller
    \* -- time --------------------------------------------------------------
    now,            \* time.monotonic()
    \* -- history (not read by the program) -------------------------------
    attempts,       \* per task: outcomes of the perform_task calls made for it
    dequeues,       \* per task: the workers that dequeued it, in order
    assigns,        \* per task: number of assignments to Task.result
    startKilled,    \* per caller: workers whose killed flag was set when its add_task started
    put_order,      \* the tasks in the order of their task_queue.put
    get_order,      \* the tasks in the order of their task_queue.get
    wrapped,        \* per worker: which RTInterface (and so which session) it was built on
    \* -- a call into rt/data.py or rt/response.py (see the second part) ----
    stage,          \* position of the call ("idle": no such call is modelled)
    input,          \* what the text at hand was made from
    content,        \* the content string, or the list of lines, at hand
    raw_data,       \* outcome of from_lines / from_string
    data,           \* outcome of deserialize
    response        \* outcome of RTResponse(content)

\* the variables of the dispatch engine
evars == <<workers, task_queue, worker_lock, nworkers, wpc, killed, expires_at,
           logged_in, wtask, wresult, task_result, task_ready, cpc, new_workers,
           observed, now, attempts, dequeues, assigns, startKilled, put_order,
           get_order, wrapped>>

\* the variables of a data call
dvars == <<stage, input, content, raw_data, data, response>>

vars == <<evars, dvars>>

(***************************************************************************)
(* Values stored in a result slot.                                         *)
(***************************************************************************)
\* PENDING = object()
PENDING == [kind |-> "PENDING", task |-> 0, attempt |-> 0]
\* what the caller holds before get_result has returned
NotObserved == [kind |-> "NotObserved", task |-> 0, attempt |-> 0]
\* the value returned by attempt k of task t's operation
Value(t, k) == [kind |-> "value", task |-> t, attempt |-> k]
\* an exception instance raised by attempt k of task t:
\* "RTAuthenticationError", or "Exception" for any other exception type
Error(kind, t, k) == [kind |-> kind, task |-> t, attempt |-> k]

\* isinstance(result, Exception)
IsException(r) == r.kind \in {"RTAuthenticationError", "Exception"}

Range(s) == {s[i] : i \in 1..Len(s)}

(***************************************************************************)
(* Worker                                                                  *)
(***************************************************************************)
\* Worker.has_expired
HasExpired(w) == now >= expires_at[w]

\* Worker.is_dead
IsDead(w) == killed[w] \/ HasExpired(w)

\* RTSession.login as called from perform_task: the set of possible
\* <<outcome, logged_in'>> given the logged_in flag.
\* Already logged in: no request is made.
LoginOutcomes(li) ==
    IF li THEN {<<"ok", TRUE>>}
    ELSE {<<"ok", TRUE>>,                       \* 200: logged_in = True
          <<"RTAuthenticationError", FALSE>>,   \* 302: credentials rejected
          <<"Exception", FALSE>>}               \* transport error / bad status

\* The operation itself (RTSession.request with require_auth): the set of
\* outcomes given the logged_in flag. A 302 raises RTAuthenticationError
\* and leaves the flag as it is.
OperationOutcomes(li) ==
    IF li THEN {"ok", "RTAuthenticationError", "Exception"}
    ELSE {"RTAuthenticationError"}

\* Worker.perform_task: login, then the operation.
PerformTask(li) ==
    {<<lo[1], lo[2]>> : lo \in {x \in LoginOutcomes(li) : x[1] # "ok"}}
    \cup
    UNION {{<<oo, lo[2]>> : oo \in OperationOutcomes(lo[2])}
              : lo \in {x \in LoginOutcomes(li) : x[1] = "ok"}}

\* RTInterface.logout: RTSession.logout then new_session. The set of
\* <<outcome, logged_in'>>.
Logout(li) ==
    IF ~li THEN {<<"ok", FALSE>>}
    ELSE {<<"ok", FALSE>>, <<"Exception", TRUE>>}

\* Faulty variant of Kill: the failure takes down every worker.
Kill_All(w) == killed' = [v \in WorkerIds |-> TRUE]

\* Worker.kill
Kill(w) == killed' = [killed EXCEPT ![w] = TRUE]

\* while not self.is_dead: ... ; self.dispose()
RunLoop(w) ==
    /\ wpc[w] = "loop"
    /\ wpc' = [wpc EXCEPT ![w] = IF IsDead(w) THEN "dispose" ELSE "wait"]
    /\ UNCHANGED <<workers, task_queue, worker_lock, nworkers, killed, expires_at,
                   logged_in, wtask, wresult, task_result, task_ready, cpc,
                   new_workers, observed, now, attempts, dequeues, assigns,
                   startKilled>>
    /\ UNCHANGED <<put_order, get_order, wrapped>>
    /\ UNCHANGED dvars

\* Faulty variant of WaitForTask: the task is read from the head of the
\* queue but not removed from it (a peek instead of a get).
WaitForTask_Peek(w) ==
    /\ wpc[w] = "wait"
    /\ task_queue # <<>>
    /\ wtask' = [wtask EXCEPT ![w] = Head(task_queue)]
    /\ dequeues' = [dequeues EXCEPT ![Head(task_queue)] = Append(@, w)]
    /\ get_order' = Append(get_order, Head(task_queue))
    /\ wpc' = [wpc EXCEPT ![w] = "perform"]
    /\ UNCHANGED <<workers, task_queue, worker_lock, nworkers, killed, expires_at,
                   logged_in, wresult, task_result, task_ready, cpc, new_workers,
                   observed, now, attempts, assigns, startKilled>>
    /\ UNCHANGED <<put_order, wrapped>>
    /\ UNCHANGED dvars

\* Faulty variant of WaitForTask: the task put last is taken first.
WaitForTask_Last(w) ==
    /\ wpc[w] = "wait"
    /\ task_queue # <<>>
    /\ wtask' = [wtask EXCEPT ![w] = task_queue[Len(task_queue)]]
    /\ task_queue' = SubSeq(task_queue, 1, Len(task_queue) - 1)
    /\ dequeues' = [dequeues EXCEPT ![task_queue[Len(task_queue)]] = Append(@, w)]
    /\ get_order' = Append(get_order, task_queue[Len(task_queue)])
    /\ wpc' = [wpc EXCEPT ![w] = "perform"]
    /\ UNCHANGED <<workers, worker_lock, nworkers, killed, expires_at, logged_in,
                   wresult, task_result, task_ready, cpc, new_workers, observed,
                   now, attempts, assigns, startKilled>>
    /\ UNCHANGED <<put_order, wrapped>>
    /\ UNCHANGED dvars

\* Worker.wait_for_task: self.task_queue.get()
WaitForTask(w) ==
    /\ wpc[w] = "wait"
    /\ task_queue # <<>>
    /\ wtask' = [wtask EXCEPT ![w] = Head(task_queue)]
    /\ task_queue' = Tail(task_queue)
    /\ dequeues' = [dequeues EXCEPT ![Head(task_queue)] = Append(@, w)]
    /\ get_order' = Append(get_order, Head(task_queue))
    /\ wpc' = [wpc EXCEPT ![w] = "perform"]
    /\ UNCHANGED <<workers, worker_lock, nworkers, killed, expires_at, logged_in,
                   wresult, task_result, task_ready, cpc, new_workers, observed,
                   now, attempts, assigns, startKilled>>
    /\ UNCHANGED <<put_order, wrapped>>
    /\ UNCHANGED dvars

\* Faulty variant of TryTask: every exception of the first attempt, not only
\* RTAuthenticationError, leads to logout and retry.
TryTask_RetryAny(w) ==
    /\ wpc[w] = "perform"
    /\ \E o \in PerformTask(logged_in[w]) :
         LET t == wtask[w] IN
         /\ logged_in' = [logged_in EXCEPT ![w] = o[2]]
         /\ attempts' = [attempts EXCEPT ![t] = Append(@, o[1])]
         /\ IF o[1] = "ok"
              THEN /\ wresult' = [wresult EXCEPT ![w] = Value(t, 1)]
                   /\ wpc' = [wpc EXCEPT ![w] = "finish"]
              ELSE /\ wpc' = [wpc EXCEPT ![w] = "relogin"]
                   /\ UNCHANGED wresult
         /\ UNCHANGED killed
    /\ UNCHANGED <<workers, task_queue, worker_lock, nworkers, expires_at, wtask,
                   task_result, task_ready, cpc, new_workers, observed, now,
                   dequeues, assigns, startKilled>>
    /\ UNCHANGED <<put_order, get_order, wrapped>>
    /\ UNCHANGED dvars

\* The first perform_task of the try block, with its handlers:
\*   no exception             -> result is the returned value
\*   RTAuthenticationError    -> go on to logout and retry
\*   any other Exception      -> result = exc; self.kill()
TryTask(w) ==
    /\ wpc[w] = "perform"
    /\ \E o \in PerformTask(logged_in[w]) :
         LET t == wtask[w] IN
         /\ logged_in' = [logged_in EXCEPT ![w] = o[2]]
         /\ attempts' = [attempts EXCEPT ![t] = Append(@, o[1])]
         /\ CASE o[1] = "ok" ->
                   /\ wresult' = [wresult EXCEPT ![w] = Value(t, 1)]
                   /\ wpc' = [wpc EXCEPT ![w] = "finish"]
                   /\ UNCHANGED killed
              [] o[1] = "RTAuthenticationError" ->
                   /\ wpc' = [wpc EXCEPT ![w] = "relogin"]
                   /\ UNCHANGED <<wresult, killed>>
              [] OTHER ->
                   /\ wresult' = [wresult EXCEPT ![w] = Error(o[1], t, 1)]
                   /\ Kill(w)
                   /\ wpc' = [wpc EXCEPT ![w] = "finish"]
    /\ UNCHANGED <<workers, task_queue, worker_lock, nworkers, expires_at, wtask,
                   task_result, task_ready, cpc, new_workers, observed, now,
                   dequeues, assigns, startKilled>>
    /\ UNCHANGED <<put_order, get_order, wrapped>>
    /\ UNCHANGED dvars

\* Faulty variant of Relogin: the retry follows without the logout.
Relogin_NoLogout(w) ==
    /\ wpc[w] = "relogin"
    /\ wpc' = [wpc EXCEPT ![w] = "retry"]
    /\ UNCHANGED <<logged_in, wresult, killed>>
    /\ UNCHANGED <<workers, task_queue, worker_lock, nworkers, expires_at, wtask,
                   task_result, task_ready, cpc, new_workers, observed, now,
                   attempts, dequeues, assigns, startKilled>>
    /\ UNCHANGED <<put_order, get_order, wrapped>>
    /\ UNCHANGED dvars

\* except RTAuthenticationError: self.wrapped.logout(); an exception raised
\* by the logout is caught by the outer handler (result = exc; self.kill()).
Relogin(w) ==
    /\ wpc[w] = "relogin"
    /\ \E o \in Logout(logged_in[w]) :
         /\ logged_in' = [logged_in EXCEPT ![w] = o[2]]
         /\ IF o[1] = "ok"
              THEN /\ wpc' = [wpc EXCEPT ![w] = "retry"]
                   /\ UNCHANGED <<wresult, killed>>
              ELSE /\ wresult' = [wresult EXCEPT ![w] = Error(o[1], wtask[w], 0)]
                   /\ Kill(w)
                   /\ wpc' = [wpc EXCEPT ![w] = "finish"]
    /\ UNCHANGED <<workers, task_queue, worker_lock, nworkers, expires_at, wtask,
                   task_result, task_ready, cpc, new_workers, observed, now,
                   attempts, dequeues, assigns, startKilled>>
    /\ UNCHANGED <<put_order, get_order, wrapped>>
    /\ UNCHANGED dvars

\* Faulty variant of RetryTask: the worker is killed whenever a retry was
\* needed, also when the retry succeeds.
RetryTask_KillAlways(w) ==
    /\ wpc[w] = "retry"
    /\ \E o \in PerformTask(logged_in[w]) :
         LET t == wtask[w] IN
         /\ logged_in' = [logged_in EXCEPT ![w] = o[2]]
         /\ attempts' = [attempts EXCEPT ![t] = Append(@, o[1])]
         /\ wresult' = [wresult EXCEPT ![w] =
                           IF o[1] = "ok" THEN Value(t, 2) ELSE Error(o[1], t, 2)]
         /\ Kill(w)
         /\ wpc' = [wpc EXCEPT ![w] = "finish"]
    /\ UNCHANGED <<workers, task_queue, worker_lock, nworkers, expires_at, wtask,
                   task_result, task_ready, cpc, new_workers, observed, now,
                   dequeues, assigns, startKilled>>
    /\ UNCHANGED <<put_order, get_order, wrapped>>
    /\ UNCHANGED dvars

\* The second perform_task (inside the except RTAuthenticationError block):
\* any exception, a second RTAuthenticationError included, reaches the outer
\* handler: result = exc; self.kill().
RetryTask(w) ==
    /\ wpc[w] = "retry"
    /\ \E o \in PerformTask(logged_in[w]) :
         LET t == wtask[w] IN
         /\ logged_in' = [logged_in EXCEPT ![w] = o[2]]
         /\ attempts' = [attempts EXCEPT ![t] = Append(@, o[1])]
         /\ IF o[1] = "ok"
              THEN /\ wresult' = [wresult EXCEPT ![w] = Value(t, 2)]
                   /\ UNCHANGED killed
              ELSE /\ wresult' = [wresult EXCEPT ![w] = Error(o[1], t, 2)]
                   /\ Kill(w)
         /\ wpc' = [wpc EXCEPT ![w] = "finish"]
    /\ UNCHANGED <<workers, task_queue, worker_lock, nworkers, expires_at, wtask,
                   task_result, task_ready, cpc, new_workers, observed, now,
                   dequeues, assigns, startKilled>>
    /\ UNCHANGED <<put_order, get_order, wrapped>>
    /\ UNCHANGED dvars

\* Worker.finish_task, first half: Task.set_result up to self.result = result.
\* A result that is already set raises ValueError, which nothing in
\* Worker.run catches: the thread ends.
SetResult(w) ==
    /\ wpc[w] = "finish"
    /\ LET t == wtask[w] IN
         IF task_result[t] # PENDING
           THEN /\ wpc' = [wpc EXCEPT ![w] = "crashed"]
                /\ UNCHANGED <<task_result, assigns>>
           ELSE /\ task_result' = [task_result EXCEPT ![t] = wresult[w]]
                /\ assigns' = [assigns EXCEPT ![t] = @ + 1]
                /\ wpc' = [wpc EXCEPT ![w] = "signal"]
    /\ UNCHANGED <<workers, task_queue, worker_lock, nworkers, killed, expires_at,
                   logged_in, wtask, wresult, task_ready, cpc, new_workers,
                   observed, now, attempts, dequeues, startKilled>>
    /\ UNCHANGED <<put_order, get_order, wrapped>>
    /\ UNCHANGED dvars

\* Worker.finish_task, second half: self.ready.set() in Task.set_result,
\* then self.task_queue.task_done(); control returns to the loop test.
SignalReady(w) ==
    /\ wpc[w] = "signal"
    /\ task_ready' = [task_ready EXCEPT ![wtask[w]] = TRUE]
    /\ wpc' = [wpc EXCEPT ![w] = "loop"]
    /\ UNCHANGED <<workers, task_queue, worker_lock, nworkers, killed, expires_at,
                   logged_in, wtask, wresult, task_result, cpc, new_workers,
                   observed, now, attempts, dequeues, assigns, startKilled>>
    /\ UNCHANGED <<put_order, get_order, wrapped>>
    /\ UNCHANGED dvars

\* Worker.dispose: logout, any exception logged and swallowed; the thread ends.
Dispose(w) ==
    /\ wpc[w] = "dispose"
    /\ \E o \in Logout(logged_in[w]) :
         logged_in' = [logged_in EXCEPT ![w] = o[2]]
    /\ wpc' = [wpc EXCEPT ![w] = "exit"]
    /\ UNCHANGED <<workers, task_queue, worker_lock, nworkers, killed, expires_at,
                   wtask, wresult, task_result, task_ready, cpc, new_workers,
                   observed, now, attempts, dequeues, assigns, startKilled>>
    /\ UNCHANGED <<put_order, get_order, wrapped>>
    /\ UNCHANGED dvars

(***************************************************************************)
(* RTFrontEnd                                                              *)
(***************************************************************************)
\* A caller enters add_task -> check_workers and waits for the lock.
StartAddTask(t) ==
    /\ cpc[t] = "idle"
    /\ cpc' = [cpc EXCEPT ![t] = "lock"]
    /\ startKilled' = [startKilled EXCEPT ![t] = {w \in WorkerIds : killed[w]}]
    /\ UNCHANGED <<workers, task_queue, worker_lock, nworkers, wpc, killed,
                   expires_at, logged_in, wtask, wresult, task_result, task_ready,
                   new_workers, observed, now, attempts, dequeues, assigns>>
    /\ UNCHANGED <<put_order, get_order, wrapped>>
    /\ UNCHANGED dvars

\* Faulty variant of AcquireLock: the health check is entered without
\* waiting for the lock.
AcquireLock_NoWait(t) ==
    /\ cpc[t] = "lock"
    /\ worker_lock' = t
    /\ new_workers' = [new_workers EXCEPT ![t] = <<>>]
    /\ cpc' = [cpc EXCEPT ![t] = "check"]
    /\ UNCHANGED <<workers, task_queue, nworkers, wpc, killed, expires_at,
                   logged_in, wtask, wresult, task_result, task_ready, observed,
                   now, attempts, dequeues, assigns, startKilled>>
    /\ UNCHANGED <<put_order, get_order, wrapped>>
    /\ UNCHANGED dvars

\* check_workers: with self.worker_lock: new_workers = []
AcquireLock(t) ==
    /\ cpc[t] = "lock"
    /\ worker_lock = 0
    /\ worker_lock' = t
    /\ new_workers' = [new_workers EXCEPT ![t] = <<>>]
    /\ cpc' = [cpc EXCEPT ![t] = "check"]
    /\ UNCHANGED <<workers, task_queue, nworkers, wpc, killed, expires_at,
                   logged_in, wtask, wresult, task_result, task_ready, observed,
                   now, attempts, dequeues, assigns, startKilled>>
    /\ UNCHANGED <<put_order, get_order, wrapped>>
    /\ UNCHANGED dvars

\* Faulty variant of MakeWorker: the new worker is constructed but never
\* started.
MakeWorker_NotStarted(t) ==
    LET id == nworkers + 1 IN
    /\ nworkers < MaxWorkers
    /\ nworkers' = id
    /\ killed' = [killed EXCEPT ![id] = FALSE]
    /\ logged_in' = [logged_in EXCEPT ![id] = FALSE]
    /\ wrapped' = [wrapped EXCEPT ![id] = id]
    /\ new_workers' = [new_workers EXCEPT ![t] = Append(@, id)]
    /\ UNCHANGED <<wpc, expires_at>>

\* Faulty variant of MakeWorker: the replacement is built on the RTInterface
\* of the first worker instead of a new one.
MakeWorker_SharedInterface(t) ==
    LET id == nworkers + 1 IN
    /\ nworkers < MaxWorkers
    /\ nworkers' = id
    /\ wpc' = [wpc EXCEPT ![id] = "loop"]
    /\ killed' = [killed EXCEPT ![id] = FALSE]
    /\ expires_at' = [expires_at EXCEPT ![id] = now + WorkerLifetime]
    /\ logged_in' = [logged_in EXCEPT ![id] = FALSE]
    /\ wrapped' = [wrapped EXCEPT ![id] = wrapped[1]]
    /\ new_workers' = [new_workers EXCEPT ![t] = Append(@, id)]

\* RTFrontEnd.make_worker appended to new_workers: a new RTInterface (not
\* logged in; make_worker constructs one per Worker, so it is the id-th
\* ever constructed), a new Worker on it, started now.
MakeWorker(t) ==
    LET id == nworkers + 1 IN
    /\ nworkers < MaxWorkers
    /\ nworkers' = id
    /\ wpc' = [wpc EXCEPT ![id] = "loop"]
    /\ killed' = [killed EXCEPT ![id] = FALSE]
    /\ expires_at' = [expires_at EXCEPT ![id] = now + WorkerLifetime]
    /\ logged_in' = [logged_in EXCEPT ![id] = FALSE]
    /\ wrapped' = [wrapped EXCEPT ![id] = id]
    /\ new_workers' = [new_workers EXCEPT ![t] = Append(@, id)]

\* Faulty variant of CheckWorker: only an expired worker is replaced, the
\* killed flag is not looked at.
CheckWorker_ExpiredOnly(t) ==
    /\ cpc[t] = "check"
    /\ Len(new_workers[t]) < Len(workers)
    /\ LET w == workers[Len(new_workers[t]) + 1] IN
         IF HasExpired(w)
           THEN MakeWorker(t)
           ELSE /\ new_workers' = [new_workers EXCEPT ![t] = Append(@, w)]
                /\ UNCHANGED <<nworkers, wpc, killed, expires_at, logged_in, wrapped>>
    /\ UNCHANGED <<workers, task_queue, worker_lock, wtask, wresult, task_result,
                   task_ready, cpc, observed, now, attempts, dequeues, assigns,
                   startKilled>>
    /\ UNCHANGED <<put_order, get_order>>
    /\ UNCHANGED dvars

\* One iteration of the loop of check_workers:
\*   worker = self.make_worker() if worker.is_dead else worker
\*   new_workers.append(worker)
CheckWorker(t) ==
    /\ cpc[t] = "check"
    /\ Len(new_workers[t]) < Len(workers)
    /\ LET w == workers[Len(new_workers[t]) + 1] IN
         IF IsDead(w)
           THEN MakeWorker(t)
           ELSE /\ new_workers' = [new_workers EXCEPT ![t] = Append(@, w)]
                /\ UNCHANGED <<nworkers, wpc, killed, expires_at, logged_in, wrapped>>
    /\ UNCHANGED <<workers, task_queue, worker_lock, wtask, wresult, task_result,
                   task_ready, cpc, observed, now, attempts, dequeues, assigns,
                   startKilled>>
    /\ UNCHANGED <<put_order, get_order>>
    /\ UNCHANGED dvars

\* End of check_workers: self.workers = new_workers; the lock is released.
ReplaceWorkers(t) ==
    /\ cpc[t] = "check"
    /\ Len(new_workers[t]) = Len(workers)
    /\ workers' = new_workers[t]
    /\ worker_lock' = 0
    /\ new_workers' = [new_workers EXCEPT ![t] = <<>>]
    /\ cpc' = [cpc EXCEPT ![t] = "put"]
    /\ UNCHANGED <<task_queue, nworkers, wpc, killed, expires_at, logged_in, wtask,
                   wresult, task_result, task_ready, observed, now, attempts,
                   dequeues, assigns, startKilled>>
    /\ UNCHANGED <<put_order, get_order, wrapped>>
    /\ UNCHANGED dvars

\* add_task after check_workers: task = Task(...); self.task_queue.put(task)
PutTask(t) ==
    /\ cpc[t] = "put"
    /\ task_queue' = Append(task_queue, t)
    /\ put_order' = Append(put_order, t)
    /\ cpc' = [cpc EXCEPT ![t] = "get"]
    /\ UNCHANGED <<workers, worker_lock, nworkers, wpc, killed, expires_at,
                   logged_in, wtask, wresult, task_result, task_ready, new_workers,
                   observed, now, attempts, dequeues, assigns, startKilled>>
    /\ UNCHANGED <<get_order, wrapped>>
    /\ UNCHANGED dvars

\* RTFrontEnd.get_result: task.get_result() waits for ready and returns
\* self.result, which is raised when it is an exception.
GetResult(t) ==
    /\ cpc[t] = "get"
    /\ task_ready[t]
    /\ observed' = [observed EXCEPT ![t] = task_result[t]]
    /\ cpc' = [cpc EXCEPT ![t] = IF IsException(task_result[t]) THEN "raised"
                                                                ELSE "returned"]
    /\ UNCHANGED <<workers, task_queue, worker_lock, nworkers, wpc, killed,
                   expires_at, logged_in, wtask, wresult, task_result, task_ready,
                   new_workers, now, attempts, dequeues, assigns, startKilled>>
    /\ UNCHANGED <<put_order, get_order, wrapped>>
    /\ UNCHANGED dvars

\* time.monotonic() advances.
Tick ==
    /\ now < MaxTime
    /\ now' = now + 1
    /\ UNCHANGED <<workers, task_queue, worker_lock, nworkers, wpc, killed,
                   expires_at, logged_in, wtask, wresult, task_result, task_ready,
                   cpc, new_workers, observed, attempts, dequeues, assigns,
                   startKilled>>
    /\ UNCHANGED <<put_order, get_order, wrapped>>
    /\ UNCHANGED dvars

\* No call into rt/data.py or rt/response.py is under way.
NoCall == [exc |-> "none"]

DataIdle ==
    /\ stage = "idle"
    /\ input = NoCall
    /\ content = <<>>
    /\ raw_data = NoCall
    /\ data = NoCall
    /\ response = NoCall

\* RTFrontEnd.__init__: num_workers workers made and started at time 0.
EngineInit ==
    /\ workers = [i \in 1..NumWorkers |-> i]
    /\ task_queue = <<>>
    /\ worker_lock = 0
    /\ nworkers = NumWorkers
    /\ wpc = [w \in WorkerIds |-> IF w <= NumWorkers THEN "loop" ELSE "unborn"]
    /\ killed = [w \in WorkerIds |-> FALSE]
    /\ expires_at = [w \in WorkerIds |-> IF w <= NumWorkers THEN WorkerLifetime ELSE 0]
    /\ logged_in = [w \in WorkerIds |-> FALSE]
    /\ wtask = [w \in WorkerIds |-> 0]
    /\ wresult = [w \in WorkerIds |-> PENDING]
    /\ task_result = [t \in Tasks |-> PENDING]
    /\ task_ready = [t \in Tasks |-> FALSE]
    /\ cpc = [t \in Tasks |-> "idle"]
    /\ new_workers = [t \in Tasks |-> <<>>]
    /\ observed = [t \in Tasks |-> NotObserved]
    /\ now = 0
    /\ attempts = [t \in Tasks |-> <<>>]
    /\ dequeues = [t \in Tasks |-> <<>>]
    /\ assigns = [t \in Tasks |-> 0]
    /\ startKilled = [t \in Tasks |-> {}]
    /\ put_order = <<>>
    /\ get_order = <<>>
    /\ wrapped = [w \in WorkerIds |-> IF w <= NumWorkers THEN w ELSE 0]

Init == EngineInit /\ DataIdle

WorkerStep(w) ==
    \/ RunLoop(w)
    \/ WaitForTask(w)
    \/ TryTask(w)
    \/ Relogin(w)
    \/ RetryTask(w)
    \/ SetResult(w)
    \/ SignalReady(w)
    \/ Dispose(w)

CallerStep(t) ==
    \/ StartAddTask(t)
    \/ AcquireLock(t)
    \/ CheckWorker(t)
    \/ ReplaceWorkers(t)
    \/ PutTask(t)
    \/ GetResult(t)

Next ==
    \/ \E w \in WorkerIds : WorkerStep(w)
    \/ \E t \in Tasks : CallerStep(t)
    \/ Tick

Spec == Init /\ [][Next]_vars

\* the steps of a caller that has entered add_task
CallerProgress(t) ==
    \/ AcquireLock(t)
    \/ CheckWorker(t)
    \/ ReplaceWorkers(t)
    \/ PutTask(t)
    \/ GetResult(t)

\* The threads are scheduled fairly and the clock advances: a step of a
\* worker thread, a step of a caller inside add_task or get_result, or a
\* tick, that stays possible is eventually taken. Whether and when a caller
\* calls add_task is up to the application.
Fairness ==
    /\ \A w \in WorkerIds : WF_vars(WorkerStep(w))
    /\ \A t \in Tasks : WF_vars(CallerProgress(t))
    /\ WF_vars(Tick)

FairSpec == Init /\ [][Next]_vars /\ Fairness

(***************************************************************************)
(* Properties of the dispatch engine (checked under Spec).                 *)
(***************************************************************************)
\* The worker that dequeued task t first.
Executor(t) == dequeues[t][1]

\* A worker thread that can still take a step of Worker.run.
ThreadAlive(w) == wpc[w] \notin {"unborn", "exit", "crashed"}

\* C1: every task enqueued by add_task eventually gets a value or an error
\* stored in its result slot and its waiter returns, also when no further
\* add_task is called. Stated so that a finite run refutes it: whenever a
\* caller is blocked in get_result on a task with no result, some worker
\* thread is still running or some add_task already under way has still to
\* run its health check; otherwise nothing can ever store the result.
C1_EnqueuedTaskIsServed ==
    \A t \in Tasks :
        (cpc[t] = "get" /\ task_result[t] = PENDING)
            => \/ \E w \in WorkerIds : ThreadAlive(w)
               \/ \E u \in Tasks : cpc[u] \in {"lock", "check"}

\* C2: each task is dequeued by exactly one worker, its result slot is
\* assigned at most once, and get_result returns only after the assignment
\* with exactly the assigned result: never PENDING, never the result of
\* another task.
C2_SingleAssignment ==
    \A t \in Tasks :
        /\ Len(dequeues[t]) <= 1
        /\ assigns[t] <= 1
        /\ (task_result[t] # PENDING) <=> (assigns[t] = 1)
        /\ task_result[t] # PENDING =>
              /\ Len(dequeues[t]) = 1
              /\ task_result[t].task = t
        /\ task_ready[t] => task_result[t] # PENDING
        /\ cpc[t] \in {"returned", "raised"} <=> observed[t] # NotObserved
        /\ observed[t] # NotObserved =>
              /\ assigns[t] = 1
              /\ observed[t] # PENDING
              /\ observed[t] = task_result[t]
              /\ observed[t].task = t
              /\ (cpc[t] = "raised") <=> IsException(observed[t])

C2_Witness ==
    /\ \A t \in Tasks : observed[t] # NotObserved
    /\ Executor(1) # Executor(2)
    /\ cpc[1] = "returned"
    /\ cpc[2] = "raised"

\* What C3 says of a task whose first attempt raised the authentication
\* error and whose second attempt succeeded, apart from what becomes of
\* the worker afterwards.
C3_RetryAbsorbed(t) ==
    /\ Len(attempts[t]) = 2
    /\ task_result[t] \in {PENDING, Value(t, 2)}
    /\ task_ready[t] => task_result[t] = Value(t, 2)
    /\ observed[t] \in {NotObserved, Value(t, 2)}
    /\ cpc[t] # "raised"

C3_Case(t) ==
    /\ Len(attempts[t]) >= 2
    /\ attempts[t][1] = "RTAuthenticationError"
    /\ attempts[t][2] = "ok"

\* C3 as stated: authentication failure then success: one retry, the second
\* attempt's value is the result the caller gets, and the worker is not
\* killed and continues to take tasks (its thread does not leave the loop).
C3_RetryKeepsWorker ==
    \A t \in Tasks : C3_Case(t) =>
        /\ C3_RetryAbsorbed(t)
        /\ \A w \in WorkerIds : wtask[w] = t =>
              /\ ~killed[w]
              /\ wpc[w] \notin {"dispose", "exit", "crashed"}

\* C3 amended: the worker is not killed and continues to take tasks unless
\* its lifetime has expired.
C3_RetryKeepsWorkerUnlessExpired ==
    \A t \in Tasks : C3_Case(t) =>
        /\ C3_RetryAbsorbed(t)
        /\ \A w \in WorkerIds : wtask[w] = t =>
              /\ ~killed[w]
              /\ wpc[w] # "crashed"
              /\ wpc[w] \in {"dispose", "exit"} => HasExpired(w)

\* The caller of task 1 got the second attempt's value and the worker that
\* retried it went on to dequeue task 2.
C3_Witness ==
    /\ C3_Case(1)
    /\ observed[1] = Value(1, 2)
    /\ cpc[1] = "returned"
    /\ dequeues[2] = dequeues[1]
    /\ wtask[Executor(1)] = 2

\* C4: both attempts raise the authentication error: two attempts, the
\* second error is the result and is raised to the caller, the worker's
\* killed flag is set before the result is observable, and every add_task
\* that starts afterwards has replaced that worker by a newly constructed
\* one when it enqueues its task.
C4_SecondAuthFailureKills ==
    \A t \in Tasks :
        (/\ Len(attempts[t]) >= 2
         /\ attempts[t][1] = "RTAuthenticationError"
         /\ attempts[t][2] = "RTAuthenticationError")
        => /\ Len(attempts[t]) = 2
           /\ killed[Executor(t)]
           /\ task_result[t] \in {PENDING, Error("RTAuthenticationError", t, 2)}
           /\ task_ready[t] => task_result[t] = Error("RTAuthenticationError", t, 2)
           /\ observed[t] \in {NotObserved, Error("RTAuthenticationError", t, 2)}
           /\ cpc[t] # "returned"
           /\ \A u \in Tasks :
                 (/\ Executor(t) \in startKilled[u]
                  /\ cpc[u] \in {"put", "get", "returned", "raised"})
                 => /\ Executor(t) \notin Range(workers)
                    /\ Len(workers) = NumWorkers
                    /\ \A i \in 1..Len(workers) :
                          /\ wpc[workers[i]] # "unborn"
                          /\ workers[i] \notin startKilled[u]

C4_Witness ==
    /\ attempts[1] = <<"RTAuthenticationError", "RTAuthenticationError">>
    /\ cpc[1] = "raised"
    /\ observed[1] = Error("RTAuthenticationError", 1, 2)
    /\ Executor(1) \in startKilled[2]
    /\ cpc[2] = "get"
    /\ Executor(1) \notin Range(workers)

\* C5: a first attempt that raises anything but the authentication error is
\* not retried, the worker is killed, the exception is the task's result
\* and is raised to the caller; only the authentication error is retried.
C5_OtherErrorNotRetried ==
    \A t \in Tasks :
        /\ Len(attempts[t]) <= 2
        /\ Len(attempts[t]) = 2 => attempts[t][1] = "RTAuthenticationError"
        /\ (Len(attempts[t]) >= 1 /\ attempts[t][1] \notin {"ok", "RTAuthenticationError"})
           => /\ Len(attempts[t]) = 1
              /\ killed[Executor(t)]
              /\ task_result[t] \in {PENDING, Error(attempts[t][1], t, 1)}
              /\ task_ready[t] => task_result[t] = Error(attempts[t][1], t, 1)
              /\ observed[t] \in {NotObserved, Error(attempts[t][1], t, 1)}
              /\ cpc[t] # "returned"

C5_Witness ==
    /\ attempts[1] = <<"Exception">>
    /\ cpc[1] = "raised"
    /\ observed[1] = Error("Exception", 1, 1)
    /\ killed[Executor(1)]

\* C6, state part: the worker list always has num_workers entries, all of
\* them distinct constructed workers.
C6_PoolSize ==
    /\ Len(workers) = NumWorkers
    /\ \A i \in 1..Len(workers) : workers[i] \in 1..nworkers
    /\ \A i, j \in 1..Len(workers) : workers[i] = workers[j] => i = j

\* C6, step part: an iteration of the health check puts in place of a dead
\* worker a worker that did not exist before, started now, not killed, with
\* a session of its own that is not logged in; it keeps a live worker; and
\* the list the health check stores is the list so built.
C6_HealthCheckStep ==
    /\ (\A t \in Tasks : cpc[t] # "check" \/ cpc'[t] # "put") => workers' = workers
    /\ \A t \in Tasks :
        /\ (cpc[t] = "check" /\ Len(new_workers'[t]) = Len(new_workers[t]) + 1) =>
              LET i == Len(new_workers'[t])
                  old == workers[i]
                  new == new_workers'[t][i]
              IN IF IsDead(old)
                   THEN /\ wpc[new] = "unborn"
                        /\ wpc'[new] = "loop"
                        /\ new \notin Range(workers)
                        /\ ~killed'[new]
                        /\ ~logged_in'[new]
                        /\ expires_at'[new] = now + WorkerLifetime
                   ELSE new = old
        /\ (cpc[t] = "check" /\ cpc'[t] = "put") =>
              /\ workers' = new_workers[t]
              /\ \A i \in 1..Len(workers) :
                    workers'[i] # workers[i] => IsDead(workers[i])

\* C6: the pool always has num_workers workers and each health check
\* replaces exactly the workers it finds dead by new started workers.
C6_PoolRepaired == [](C6_PoolSize) /\ [][C6_HealthCheckStep]_vars

\* A health check has replaced one worker and kept the other in place.
C6_Witness ==
    /\ 3 \in Range(workers)
    /\ \E i \in 1..Len(workers) : workers[i] = i
    /\ \E t \in Tasks : cpc[t] = "put"

(***************************************************************************)
(* Text. A Python str is modelled as a sequence of one-character strings,  *)
(* a list of lines as a sequence of such sequences.                        *)
(***************************************************************************)
DigitChars == <<"0", "1", "2", "3", "4", "5", "6", "7", "8", "9">>
LowerChars == <<"a", "b", "c", "d", "e", "f", "g", "h", "i", "j", "k", "l", "m",
                "n", "o", "p", "q", "r", "s", "t", "u", "v", "w", "x", "y", "z">>
UpperChars == <<"A", "B", "C", "D", "E", "F", "G", "H", "I", "J", "K", "L", "M",
                "N", "O", "P", "Q", "R", "S", "T", "U", "V", "W", "X", "Y", "Z">>

\* \d
Digits == Range(DigitChars)
\* \w
WordChars == Range(LowerChars) \cup Range(UpperChars) \cup Digits \cup {"_"}
\* [\w -]
KeyChars == WordChars \cup {" ", "-"}
\* \s, and what str.strip() removes
Whitespace == {" ", "\t", "\n", "\r"}
\* the line boundaries of str.splitlines()
LineBreaks == {"\n", "\r"}

\* str.startswith
StartsWith(s, p) == Len(s) >= Len(p) /\ SubSeq(s, 1, Len(p)) = p

\* s[i:] for a 1-based i
From(s, i) == SubSeq(s, i, Len(s))

\* the least element of a non-empty set of numbers
Least(S) == CHOOSE j \in S : \A k \in S : j <= k

\* the first position from i on of a character of C in s; Len(s) + 1 if none
FirstIn(s, i, C) ==
    LET hits == {j \in i..Len(s) : s[j] \in C}
    IN IF hits = {} THEN Len(s) + 1 ELSE Least(hits)

\* length of the longest run of characters of C in s from position i on
SpanLen(s, i, C) ==
    LET stops == {j \in i..Len(s) : s[j] \notin C}
    IN IF stops # {} THEN Least(stops) - i
       ELSE IF i > Len(s) THEN 0 ELSE Len(s) - i + 1

\* str.lstrip()
LStrip(s) == From(s, SpanLen(s, 1, Whitespace) + 1)

\* str.rstrip()
RStrip(s) ==
    LET keep == {j \in 1..Len(s) : s[j] \notin Whitespace}
    IN IF keep = {} THEN <<>>
       ELSE SubSeq(s, 1, CHOOSE j \in keep : \A k \in keep : k <= j)

\* str.strip()
Strip(s) == RStrip(LStrip(s))

RECURSIVE Join(_, _)
\* sep.join(ss)
Join(ss, sep) ==
    IF ss = <<>> THEN <<>>
    ELSE IF Len(ss) = 1 THEN ss[1]
    ELSE ss[1] \o sep \o Join(Tail(ss), sep)

\* s[i] when i is a position of s, else a value that is no character
At(s, i) == IF i >= 1 /\ i <= Len(s) THEN s[i] ELSE "EOS"

RECURSIVE SplitLinesFrom(_, _)
\* the lines of s from position i on; "\r\n" is one line break
SplitLinesFrom(s, i) ==
    IF i > Len(s) THEN <<>>
    ELSE LET j == FirstIn(s, i, LineBreaks)
             next == IF At(s, j) = "\r" /\ At(s, j + 1) = "\n" THEN j + 2 ELSE j + 1
         IN <<SubSeq(s, i, j - 1)>> \o SplitLinesFrom(s, next)

\* str.splitlines(): the lines without their line breaks; no last empty line
SplitLines(s) == SplitLinesFrom(s, 1)

\* content_to_lines
content_to_lines(text) == SplitLines(text)

RECURSIVE SplitFrom(_, _, _)
SplitFrom(s, c, i) ==
    LET j == FirstIn(s, i, {c})
    IN IF j > Len(s) THEN <<SubSeq(s, i, Len(s))>>
       ELSE <<SubSeq(s, i, j - 1)>> \o SplitFrom(s, c, j + 1)

\* s.split(c) for a one-character separator c
Split(s, c) == SplitFrom(s, c, 1)

(***************************************************************************)
(* rt/patterns.py                                                          *)
(***************************************************************************)
NoMatch == [matched |-> FALSE, key |-> <<>>, value |-> <<>>]

\* The position after a match of [\w -]+\?? from position i of line, the
\* run [\w -]+ being n characters long; 0 if the run is empty. The run can
\* only end where the next character is none of its own, so there is one
\* match at most.
KeyEnd(line, i, n) ==
    IF n = 0 THEN 0
    ELSE IF At(line, i + n) = "?" THEN i + n + 1 ELSE i + n

\* the position of the ":" after the key CF\.\{[\w -]+\??\}, or 0
CFColon(line, e) ==
    IF e # 0 /\ At(line, e) = "}" /\ At(line, e + 1) = ":" THEN e + 1 ELSE 0

\* the position of the ":" after the key [\w -]+\??, or 0
BareColon(line, e) == IF e # 0 /\ At(line, e) = ":" THEN e ELSE 0

\* the groups of a match whose ":" is at position c: \s* takes all the
\* whitespace that follows, the value is the rest of the line
MatchAt(line, c) ==
    [matched |-> TRUE, key |-> SubSeq(line, 1, c - 1), value |-> LStrip(From(line, c + 1))]

\* the first alternative of the key that matches decides
FirstMatch(line, cf, bare) ==
    IF cf # 0 THEN MatchAt(line, cf)
    ELSE IF bare # 0 THEN MatchAt(line, bare)
    ELSE NoMatch

\* re.match(KEY_VALUE_LINE, line) for a line holding no line break:
\*   ^(?P<key>(CF\.\{[\w -]+\??\}|[\w -]+\??)):\s*(?P<value>.*)$
KeyValueLine(line) ==
    FirstMatch(line,
               IF StartsWith(line, <<"C", "F", ".", "{">>)
                 THEN CFColon(line, KeyEnd(line, 5, SpanLen(line, 5, KeyChars)))
                 ELSE 0,
               BareColon(line, KeyEnd(line, 1, SpanLen(line, 1, KeyChars))))

(***************************************************************************)
(* textwrap.dedent                                                         *)
(***************************************************************************)
IndentChars == {" ", "\t"}

\* the leading run of blanks and tabs of a line
Indent(line) == SubSeq(line, 1, SpanLen(line, 1, IndentChars))

\* a line of blanks and tabs only (or empty)
IsBlankLine(line) == SpanLen(line, 1, IndentChars) = Len(line)

\* the longest common prefix of a and b
CommonPrefix(a, b) ==
    LET n == IF Len(a) <= Len(b) THEN Len(a) ELSE Len(b)
        diffs == {j \in 1..n : a[j] # b[j]}
    IN SubSeq(a, 1, IF diffs = {} THEN n ELSE Least(diffs) - 1)

RECURSIVE Margin(_, _, _)
\* the common leading whitespace of the lines that are not blank
\* (none: no such line seen yet)
Margin(ls, none, m) ==
    IF ls = <<>> THEN (IF none THEN <<>> ELSE m)
    ELSE IF IsBlankLine(Head(ls)) THEN Margin(Tail(ls), none, m)
    ELSE IF none THEN Margin(Tail(ls), FALSE, Indent(Head(ls)))
    ELSE Margin(Tail(ls), FALSE, CommonPrefix(m, Indent(Head(ls))))

\* (variant) the lines are kept as they are
DedentLines_Keep(ls, m) == Join(ls, <<"\n">>)

\* the lines ls without the margin m; blank lines become empty
DedentLines(ls, m) ==
    Join([i \in 1..Len(ls) |->
             IF IsBlankLine(ls[i]) THEN <<>>
             ELSE IF StartsWith(ls[i], m) THEN From(ls[i], Len(m) + 1)
             ELSE ls[i]],
         <<"\n">>)

\* the lines ls without their common margin
DedentSplit(ls) == DedentLines(ls, Margin(ls, TRUE, <<>>))

\* textwrap.dedent(text): blank lines become empty, the common margin of
\* the other lines is removed
Dedent(text) == DedentSplit(Split(text, "\n"))

(***************************************************************************)
(* rt/data.py. An RTData (an OrderedDict) is modelled as a sequence of     *)
(* <<key, value>> pairs with distinct keys, in insertion order. The result *)
(* of a call is a record: exc is "none" when the call returned.            *)
(***************************************************************************)
\* (variant) a key already present is stored a second time, at the end
SetItem_Append(d, k, v) == Append(d, <<k, v>>)

RECURSIVE SetItem(_, _, _)
\* OrderedDict.__setitem__: a key already present keeps its position
SetItem(d, k, v) ==
    IF d = <<>> THEN <<<<k, v>>>>
    ELSE IF Head(d)[1] = k THEN <<<<k, v>>>> \o Tail(d)
    ELSE <<Head(d)>> \o SetItem(Tail(d), k, v)

RECURSIVE DictOf(_, _)
\* OrderedDict(pairs), started from the mapping d
DictOf(pairs, d) ==
    IF pairs = <<>> THEN d
    ELSE DictOf(Tail(pairs), SetItem(d, Head(pairs)[1], Head(pairs)[2]))

\* str.startswith('#')
IsCommentLine(line) == StartsWith(line, <<"#">>)

RECURSIVE KeyLines(_, _, _)
RECURSIVE ScanLine(_, _, _, _)
\* (variant) a line that is none of the expected kinds is passed over
ScanLine_Lenient(lines, i, acc, m) ==
    IF lines[i] = <<>> \/ IsCommentLine(lines[i]) THEN KeyLines(lines, i + 1, acc)
    ELSE IF m.matched
           THEN KeyLines(lines, i + 1,
                         Append(acc, [i |-> i, key |-> m.key, value |-> m.value]))
    ELSE KeyLines(lines, i + 1, acc)

\* One line of the first loop of RTData.from_lines, m being the match of
\* KEY_VALUE_LINE on it: a key line is recorded as [i, key, value]; a line
\* that is not empty, no comment, no key line and does not start with a
\* space raises ValueError.
ScanLine(lines, i, acc, m) ==
    IF lines[i] = <<>> \/ IsCommentLine(lines[i]) THEN KeyLines(lines, i + 1, acc)
    ELSE IF m.matched
           THEN KeyLines(lines, i + 1,
                         Append(acc, [i |-> i, key |-> m.key, value |-> m.value]))
    ELSE IF ~StartsWith(lines[i], <<" ">>)
           THEN [exc |-> "ValueError", line |-> lines[i], key_lines |-> acc]
    ELSE KeyLines(lines, i + 1, acc)

\* First loop of RTData.from_lines, from line i on: the key lines found.
KeyLines(lines, i, acc) ==
    IF i > Len(lines) THEN [exc |-> "none", line |-> <<>>, key_lines |-> acc]
    ELSE ScanLine(lines, i, acc, KeyValueLine(lines[i]))

\* Second loop of RTData.from_lines, for the k-th key line: the lines up to
\* the next key line (or the end) are its continuation lines.
FieldValue(lines, key_lines, k) ==
    LET i == key_lines[k].i
        j == IF k < Len(key_lines) THEN key_lines[k + 1].i ELSE Len(lines) + 1
        continuation_lines == SubSeq(lines, i + 1, j - 1)
        start == IF key_lines[k].value # <<>> THEN <<key_lines[k].value>> ELSE <<>>
        cont == IF continuation_lines # <<>>
                  THEN <<Dedent(Join(continuation_lines, <<"\n">>))>>
                  ELSE <<>>
    IN Strip(Join(start \o cont, <<"\n">>))

\* what RTData.from_lines returns or raises once the key lines are found
RecordOf(lines, scan) ==
    IF scan.exc # "none"
      THEN [exc |-> scan.exc, detail |-> scan.line, data |-> <<>>]
      ELSE [exc |-> "none", detail |-> <<>>,
            data |-> DictOf([k \in 1..Len(scan.key_lines) |->
                                <<scan.key_lines[k].key,
                                  FieldValue(lines, scan.key_lines, k)>>], <<>>)]

\* RTData.from_lines
from_lines(lines) == RecordOf(lines, KeyLines(lines, 1, <<>>))

\* RTData.from_string
from_string(text) == from_lines(content_to_lines(text))

(***************************************************************************)
(* Values of fields. A raw value is a str; a converted value is a str, a   *)
(* list of str, a datetime or None. A value is a record of its type, its   *)
(* strings v (the str itself, or the items of the list) and its numbers t  *)
(* (of a datetime), so that any two values can be compared.                *)
(***************************************************************************)
Str(s) == [type |-> "str", v |-> <<s>>, t |-> <<>>]
List(items) == [type |-> "list", v |-> items, t |-> <<>>]
None == [type |-> "None", v |-> <<>>, t |-> <<>>]
\* a naive datetime: year, month, day, hour, minute, second, microsecond
DateTime(y, mo, d, h, mi, s, us) ==
    [type |-> "datetime", v |-> <<>>, t |-> <<y, mo, d, h, mi, s, us>>]

\* n as decimal digits, zero-padded to width w
RECURSIVE Pad(_, _)
Pad(n, w) == IF w = 0 THEN <<>> ELSE Pad(n \div 10, w - 1) \o <<DigitChars[(n % 10) + 1]>>

\* datetime.__str__: isoformat(sep=' '); the microseconds only when not 0
DateTimeStr(t) ==
    Pad(t[1], 4) \o <<"-">> \o Pad(t[2], 2) \o <<"-">> \o Pad(t[3], 2) \o <<" ">>
    \o Pad(t[4], 2) \o <<":">> \o Pad(t[5], 2) \o <<":">> \o Pad(t[6], 2)
    \o (IF t[7] = 0 THEN <<>> ELSE <<".">> \o Pad(t[7], 6))

\* str(value)
StrOf(value) ==
    CASE value.type = "str" -> value.v[1]
      [] value.type = "None" -> <<"N", "o", "n", "e">>
      [] value.type = "datetime" -> DateTimeStr(value.t)

(***************************************************************************)
(* datetime.strptime for the two DATETIME_FORMATS.                         *)
(***************************************************************************)
DigitVal(c) == CHOOSE n \in 0..9 : DigitChars[n + 1] = c

RECURSIVE NumVal(_)
\* int(s) for a string of digits
NumVal(s) == IF s = <<>> THEN 0 ELSE 10 * NumVal(SubSeq(s, 1, Len(s) - 1)) + DigitVal(s[Len(s)])

ToLower(c) ==
    IF \E i \in 1..26 : UpperChars[i] = c
      THEN LowerChars[CHOOSE i \in 1..26 : UpperChars[i] = c]
      ELSE c

Lowered(s) == [i \in 1..Len(s) |-> ToLower(s[i])]

\* abbreviated weekday and month names of the C locale, lowered
WeekdayNames == <<<<"m", "o", "n">>, <<"t", "u", "e">>, <<"w", "e", "d">>,
                  <<"t", "h", "u">>, <<"f", "r", "i">>, <<"s", "a", "t">>,
                  <<"s", "u", "n">>>>
MonthNames == <<<<"j", "a", "n">>, <<"f", "e", "b">>, <<"m", "a", "r">>,
                <<"a", "p", "r">>, <<"m", "a", "y">>, <<"j", "u", "n">>,
                <<"j", "u", "l">>, <<"a", "u", "g">>, <<"s", "e", "p">>,
                <<"o", "c", "t">>, <<"n", "o", "v">>, <<"d", "e", "c">>>>

IsLeap(y) == (y % 4 = 0 /\ y % 100 # 0) \/ y % 400 = 0
DaysIn(y, m) ==
    IF m = 2 THEN (IF IsLeap(y) THEN 29 ELSE 28)
    ELSE IF m \in {4, 6, 9, 11} THEN 30 ELSE 31

NoField == [ok |-> FALSE, val |-> 0, next |-> 0]

\* the number of the n digits at position i of s, when n is 1 or 2 and the
\* number lies in lo..hi
NumberIn(s, i, n, lo, hi) ==
    IF /\ n \in {1, 2}
       /\ NumVal(SubSeq(s, i, i + n - 1)) >= lo
       /\ NumVal(SubSeq(s, i, i + n - 1)) <= hi
      THEN [ok |-> TRUE, val |-> NumVal(SubSeq(s, i, i + n - 1)), next |-> i + n]
      ELSE NoField

\* A numeric directive at position i of s: a run of one or two digits (what
\* follows such a directive in both formats is no digit) of a value in
\* lo..hi. next is the position after it.
NumField(s, i, lo, hi) == NumberIn(s, i, SpanLen(s, i, Digits), lo, hi)

\* %Y: exactly four digits
YearField(s, i) ==
    IF SpanLen(s, i, Digits) = 4
      THEN [ok |-> TRUE, val |-> NumVal(SubSeq(s, i, i + 3)), next |-> i + 4]
      ELSE NoField

\* a literal character of the format
Lit(s, i, c) == IF At(s, i) = c THEN [ok |-> TRUE, val |-> 0, next |-> i + 1] ELSE NoField

\* whitespace of the format: \s+
Spaces(s, i) ==
    IF SpanLen(s, i, Whitespace) >= 1
      THEN [ok |-> TRUE, val |-> 0, next |-> i + SpanLen(s, i, Whitespace)]
      ELSE NoField

\* the name w among names; val is its index
NameIn(w, names, i) ==
    IF \E k \in 1..Len(names) : names[k] = w
      THEN [ok |-> TRUE, val |-> CHOOSE k \in 1..Len(names) : names[k] = w, next |-> i + 3]
      ELSE NoField

\* %a and %b: one of the names, in any case
NameField(s, i, names) ==
    IF i + 2 <= Len(s) THEN NameIn(Lowered(SubSeq(s, i, i + 2)), names, i) ELSE NoField

\* DATETIME_FORMATS, one entry per directive (its letter), whitespace (" ")
\* or literal character
CtimeFormat == <<"a", " ", "b", " ", "d", " ", "H", ":", "M", ":", "S", " ", "Y">>
IsoFormat == <<"Y", "-", "m", "-", "d", " ", "H", ":", "M", ":", "S">>

\* the match of the format entry c at position i of s
Field(s, i, c) ==
    CASE c = "Y" -> YearField(s, i)
      [] c = "m" -> NumField(s, i, 1, 12)
      [] c = "d" -> NumField(s, i, 1, 31)
      [] c = "H" -> NumField(s, i, 0, 23)
      [] c = "M" -> NumField(s, i, 0, 59)
      [] c = "S" -> NumField(s, i, 0, 61)
      [] c = "a" -> NameField(s, i, WeekdayNames)
      [] c = "b" -> NameField(s, i, MonthNames)
      [] c = " " -> Spaces(s, i)
      [] OTHER -> Lit(s, i, c)

\* the fields of a datetime before any directive is read
DefaultFields == [Y |-> 1900, m |-> 1, d |-> 1, H |-> 0, M |-> 0, S |-> 0]

\* the fields got with the value v read by the directive c
WithField(got, c, v) ==
    CASE c = "Y" -> [got EXCEPT !.Y = v]
      [] c \in {"m", "b"} -> [got EXCEPT !.m = v]
      [] c = "d" -> [got EXCEPT !.d = v]
      [] c = "H" -> [got EXCEPT !.H = v]
      [] c = "M" -> [got EXCEPT !.M = v]
      [] c = "S" -> [got EXCEPT !.S = v]
      [] OTHER -> got

NoDateTime == [ok |-> FALSE, value |-> None]

\* the datetime of the fields read; the date must exist
MakeDateTime(got) ==
    IF got.Y >= 1 /\ got.d <= DaysIn(got.Y, got.m) /\ got.S <= 59
      THEN [ok |-> TRUE, value |-> DateTime(got.Y, got.m, got.d, got.H, got.M, got.S, 0)]
      ELSE NoDateTime

RECURSIVE Strptime(_, _, _, _, _)
RECURSIVE StrptimeStep(_, _, _, _, _)
\* the format entry k has matched as f, or has not
StrptimeStep(s, format, k, got, f) ==
    IF f.ok THEN Strptime(s, format, k + 1, f.next, WithField(got, format[k], f.val))
    ELSE NoDateTime

\* datetime.strptime(s, format) from the format entry k and the position i
\* of s on; the whole string must be consumed
Strptime(s, format, k, i, got) ==
    IF k > Len(format)
      THEN (IF i = Len(s) + 1 THEN MakeDateTime(got) ELSE NoDateTime)
      ELSE StrptimeStep(s, format, k, got, Field(s, i, format[k]))

(***************************************************************************)
(* RTDataSerializer                                                        *)
(***************************************************************************)
Created == <<"C", "r", "e", "a", "t", "e", "d">>
LastUpdated == <<"L", "a", "s", "t", "U", "p", "d", "a", "t", "e", "d">>
Requestors == <<"R", "e", "q", "u", "e", "s", "t", "o", "r", "s">>
Text == <<"T", "e", "x", "t">>

\* RTDataSerializer.conversion_map: the type a field is converted to
\* ("str": the field is not in the map)
conversion_map(name) ==
    IF name \in {Created, LastUpdated} THEN "datetime"
    ELSE IF name = Requestors THEN "list"
    ELSE "str"

\* RTDataSerializer.multiline_fields
multiline_fields == {Text}

\* the loop over DATETIME_FORMATS: the first format that parses decides
FirstFormat(first, second) ==
    IF first.ok THEN [exc |-> "none", value |-> first.value]
    ELSE IF second.ok THEN [exc |-> "none", value |-> second.value]
    ELSE [exc |-> "RTConversionError", value |-> None]

\* RTDataSerializer.convert_to_datetime: [exc, value]
convert_to_datetime(string) ==
    IF string = <<>> THEN [exc |-> "none", value |-> None]
    ELSE FirstFormat(Strptime(string, CtimeFormat, 1, 1, DefaultFields),
                     Strptime(string, IsoFormat, 1, 1, DefaultFields))

RECURSIVE NonEmpty(_)
NonEmpty(ss) ==
    IF ss = <<>> THEN <<>>
    ELSE IF Head(ss) = <<>> THEN NonEmpty(Tail(ss))
    ELSE <<Head(ss)>> \o NonEmpty(Tail(ss))

\* [item.strip() for item in items]
StripItems(items) == [i \in 1..Len(items) |-> Strip(items[i])]

\* RTDataSerializer.convert_to_list: [exc, value]
convert_to_list(string) ==
    IF string = <<>> THEN [exc |-> "none", value |-> List(<<>>)]
    ELSE [exc |-> "none", value |-> List(NonEmpty(StripItems(Split(string, ","))))]

\* the converter of RTDataSerializer.deserialize for a field
Convert(name, string) ==
    CASE conversion_map(name) = "datetime" -> convert_to_datetime(string)
      [] conversion_map(name) = "list" -> convert_to_list(string)
      [] OTHER -> [exc |-> "none", value |-> Str(string)]

RECURSIVE DeserializeFrom(_, _, _)
RECURSIVE Converted(_, _, _, _)
\* the field i of raw has been converted as c, or the converter raised
Converted(raw, i, d, c) ==
    IF c.exc # "none" THEN [exc |-> c.exc, detail |-> raw[i][2], data |-> <<>>]
    ELSE DeserializeFrom(raw, i + 1, SetItem(d, raw[i][1], c.value))

\* the loop of RTDataSerializer.deserialize from the field i of raw on
DeserializeFrom(raw, i, d) ==
    IF i > Len(raw) THEN [exc |-> "none", detail |-> <<>>, data |-> d]
    ELSE Converted(raw, i, d, Convert(raw[i][1], raw[i][2]))

\* RTDataSerializer.deserialize, on a raw RTData (str values): [exc, detail, data]
deserialize(raw) == DeserializeFrom(raw, 1, <<>>)

\* the lines of a multiline field are joined by a newline and a space
Multiline(name, s) ==
    IF name \in multiline_fields THEN Join(SplitLines(s), <<"\n", " ">>) ELSE s

\* the text of one field in RTDataSerializer.serialize
SerializeValue(name, value) ==
    IF value.type = "list" THEN Strip(Join(value.v, <<",", " ">>))
    ELSE Multiline(name, Strip(StrOf(value)))

\* RTDataSerializer.serialize: the content string of an RTData
serialize(d) ==
    Join([i \in 1..Len(d) |->
             d[i][1] \o <<":", " ">> \o SerializeValue(d[i][1], d[i][2])]
         \o <<<<>>>>,
         <<"\n">>)

(***************************************************************************)
(* RTMultipartData. A MultiRecord is a sequence of RTData.                 *)
(***************************************************************************)
RECURSIVE SplitParts(_, _, _, _)
\* the loop of RTMultipartData.from_lines from line i on: parts holds the
\* parts closed by a separator, current_part the lines since the last one
SplitParts(lines, i, parts, current_part) ==
    IF i > Len(lines) THEN parts
    ELSE LET line == lines[i]
             prev_line == IF i = 1 THEN <<"None">> ELSE lines[i - 1]
             next_line == IF i = Len(lines) THEN <<"None">> ELSE lines[i + 1]
         IN IF line = <<>> \/ IsCommentLine(line)
              THEN SplitParts(lines, i + 1, parts, current_part)
            ELSE IF prev_line = <<>> /\ line = <<"-", "-">> /\ next_line = <<>>
              THEN SplitParts(lines, i + 1, Append(parts, current_part), <<>>)
            ELSE SplitParts(lines, i + 1, parts, Append(current_part, line))

RECURSIVE ParseParts(_, _, _)
RECURSIVE ParsedPart(_, _, _, _)
\* the part i has been parsed as r, or RTData.from_lines raised
ParsedPart(parts, i, items, r) ==
    IF r.exc # "none" THEN [exc |-> r.exc, detail |-> r.detail, items |-> <<>>]
    ELSE ParseParts(parts, i + 1, Append(items, r.data))

\* items = [RTData.from_lines(part) for part in parts], from the part i on
ParseParts(parts, i, items) ==
    IF i > Len(parts) THEN [exc |-> "none", detail |-> <<>>, items |-> items]
    ELSE ParsedPart(parts, i, items, from_lines(parts[i]))

\* RTMultipartData.from_lines: [exc, detail, items]
multipart_from_lines(lines) == ParseParts(SplitParts(lines, 1, <<>>, <<>>), 1, <<>>)

RECURSIVE DeserializeItems(_, _, _)
RECURSIVE DeserializedItem(_, _, _, _)
\* the item i has been deserialized as r, or a converter raised
DeserializedItem(items, i, out, r) ==
    IF r.exc # "none" THEN [exc |-> r.exc, detail |-> r.detail, items |-> <<>>]
    ELSE DeserializeItems(items, i + 1, Append(out, r.data))

\* [item.deserialize(serializer) for item in self], from the item i on
DeserializeItems(items, i, out) ==
    IF i > Len(items) THEN [exc |-> "none", detail |-> <<>>, items |-> out]
    ELSE DeserializedItem(items, i, out, deserialize(items[i]))

\* RTMultipartData.deserialize: [exc, detail, items]
multipart_deserialize(items) == DeserializeItems(items, 1, <<>>)

(***************************************************************************)
(* rt/response.py                                                          *)
(***************************************************************************)
NoMeta == [matched |-> FALSE, version |-> <<>>, status_code |-> <<>>, reason |-> <<>>]

\* (\d+\.)+(\d+\.)*\d+ : runs of digits joined by single dots, two runs at
\* least
IsVersion(v) ==
    /\ v # <<>>
    /\ v[1] \in Digits
    /\ v[Len(v)] \in Digits
    /\ \E j \in 1..Len(v) : v[j] = "."
    /\ \A j \in 1..(Len(v) - 1) : ~(v[j] = "." /\ v[j + 1] = ".")

\* The reason group, the status code being at position q and followed by w
\* whitespace characters: the reason is what follows them, without its
\* trailing whitespace; when nothing follows, the whitespace gives its last
\* character up to the reason (.+? needs one character).
MetaReason(line, p, q, w) ==
    IF w >= 1 /\ (q + 3 + w <= Len(line) \/ w >= 2)
      THEN [matched |-> TRUE,
            version |-> SubSeq(line, 4, p - 1),
            status_code |-> SubSeq(line, q, q + 2),
            reason |-> IF q + 3 + w <= Len(line) THEN RStrip(From(line, q + 3 + w))
                                               ELSE <<line[Len(line)]>>]
      ELSE NoMeta

\* the status code group at position q: three digits and no fourth one
MetaStatus(line, p, q) ==
    IF SpanLen(line, q, Digits) = 3
      THEN MetaReason(line, p, q, SpanLen(line, q + 3, Whitespace))
      ELSE NoMeta

\* the version group, which ends before position p, and the whitespace
\* after it
MetaVersion(line, p) ==
    IF IsVersion(SubSeq(line, 4, p - 1)) /\ SpanLen(line, p, Whitespace) >= 1
      THEN MetaStatus(line, p, p + SpanLen(line, p, Whitespace))
      ELSE NoMeta

\* RTResponse.get_meta: re.search(HEADER_RE, line) for a line holding no
\* line break:
\*   ^RT/(?P<version>(\d+\.)+(\d+\.)*\d+)\s+(?P<status_code>\d{3})\s+(?P<reason>.+?)\s*$
\* What follows the version and the status code is whitespace, so each is
\* the whole run of its characters.
get_meta(line) ==
    IF StartsWith(line, <<"R", "T", "/">>)
      THEN MetaVersion(line, 4 + SpanLen(line, 4, Digits \cup {"."}))
      ELSE NoMeta

\* RTResponse.get_detail: re.search(DETAIL_RE, line), ^#\s*(?P<detail>.+?)\s*$,
\* and the strip() of the group; matched is FALSE where None is returned.
get_detail(line) ==
    IF StartsWith(line, <<"#">>) /\ Len(line) >= 2
      THEN [matched |-> TRUE, detail |-> Strip(From(line, 2))]
      ELSE [matched |-> FALSE, detail |-> <<>>]

RECURSIVE Details(_, _, _)
RECURSIVE DetailStep(_, _, _, _)
\* while detail: a line that is no detail (None, or '') ends the loop
DetailStep(lines, i, acc, d) ==
    IF d.matched /\ d.detail # <<>> THEN Details(lines, i + 1, Append(acc, d.detail))
    ELSE [exc |-> "none", details |-> acc]

\* the detail loop of RTResponse.__init__ from lines[i] on; lines[i] past
\* the end is an IndexError
Details(lines, i, acc) ==
    IF i > Len(lines) THEN [exc |-> "IndexError", details |-> acc]
    ELSE DetailStep(lines, i, acc, get_detail(lines[i]))

\* an RTResponse whose construction raised e
Raised(e) ==
    [exc |-> e, version |-> <<>>, status_code |-> <<>>, reason |-> <<>>,
     details |-> <<>>, detail |-> <<>>, data |-> <<>>]

\* end of RTResponse.__init__: the deserialized data, or the exception of
\* a converter
WithData(meta, details, multipart, converted) ==
    IF converted.exc # "none" THEN Raised(converted.exc)
    ELSE [exc |-> "none",
          version |-> meta.version,
          status_code |-> meta.status_code,
          reason |-> meta.reason,
          details |-> details,
          detail |-> Join(details, <<"\n">>),
          data |-> IF multipart THEN converted.items ELSE converted.data]

\* data_type.from_lines(lines) has returned or raised; .deserialize(serializer)
WithParsed(meta, details, multipart, parsed) ==
    IF parsed.exc # "none" THEN Raised(parsed.exc)
    ELSE WithData(meta, details, multipart,
                  IF multipart THEN multipart_deserialize(parsed.items)
                               ELSE deserialize(parsed.data))

\* after the detail loop: the line after the details must be empty; then
\* data_type.from_lines(lines), on the lines after the first empty line
WithDetails(meta, lines, multipart, ds) ==
    IF ds.exc # "none" THEN Raised(ds.exc)
    ELSE IF ds.details # <<>> /\ lines[Len(ds.details) + 1] # <<>>
           THEN Raised("RTMalformedResponseHeaderError")
    ELSE WithParsed(meta, ds.details, multipart,
                    IF multipart THEN multipart_from_lines(lines) ELSE from_lines(lines))

\* the lines after the meta line and the empty line
WithLines(meta, lines, multipart) ==
    WithDetails(meta, lines, multipart, Details(lines, 1, <<>>))

\* after get_meta(lines[0]): lines[0] of the remaining lines must be empty
\* (an IndexError if there is none)
WithMeta(all, multipart, meta) ==
    IF ~meta.matched THEN Raised("RTMalformedResponseHeaderError")
    ELSE IF Len(all) = 1 THEN Raised("IndexError")
    ELSE IF all[2] # <<>> THEN Raised("RTMalformedResponseHeaderError")
    ELSE WithLines(meta, Tail(Tail(all)), multipart)

\* RTResponse.__init__ once the content is split into lines
ResponseOfLines(all, multipart) ==
    IF all = <<>> THEN Raised("RTMissingResponseHeaderError")
    ELSE WithMeta(all, multipart, get_meta(all[1]))

\* RTResponse.__init__(content, multipart=multipart): the attributes of the
\* response, or the exception raised. data is an RTData, or the items of
\* an RTMultipartData.
RTResponse(text, multipart) == ResponseOfLines(content_to_lines(text), multipart)

(***************************************************************************)
(* Calls into rt/data.py and rt/response.py as state machines. Each        *)
(* specification starts from an input drawn from a bounded set and runs    *)
(* the calls on it; the dispatch engine stays as constructed.              *)
(***************************************************************************)
\* Largest number of fields of a Record given to serialize.
MaxFields == 2
\* Largest number of parts of a multipart input.
MaxParts == 3
\* Largest number of detail lines of a response.
MaxDetails == 2

\* the sequences of length 0..n over the set S
SeqsUpTo(S, n) == UNION {[1..k -> S] : k \in 0..n}

Subject == <<"S", "u", "b", "j", "e", "c", "t">>
Id == <<"i", "d">>

\* Fields with values of the declared types: <<name, value>>.
FieldPool ==
    <<<<Subject, Str(<<"a">>)>>,
      <<Subject, Str(<<"a", ":", "b">>)>>,
      <<Subject, Str(<<" ", "a">>)>>,
      <<Text, Str(<<"a", "\n", "b">>)>>,
      <<Text, Str(<<"a", "\n", " ", "b">>)>>,
      <<Created, DateTime(2020, 1, 2, 3, 4, 5, 0)>>,
      <<Created, None>>,
      <<Requestors, List(<<<<"a">>, <<"b">>>>)>>,
      <<Requestors, List(<<>>)>>>>

\* The Records of up to MaxFields fields of the pool, no name twice.
Records ==
    {[i \in 1..Len(f) |-> FieldPool[f[i]]] :
        f \in {g \in SeqsUpTo(1..Len(FieldPool), MaxFields) :
                  \A i, j \in 1..Len(g) :
                      i # j => FieldPool[g[i]][1] # FieldPool[g[j]][1]}}

\* -- serialize, from_string, deserialize on a Record ----------------------
RoundTripInit ==
    /\ EngineInit
    /\ stage = "record"
    /\ input \in Records
    /\ content = <<>>
    /\ raw_data = NoCall
    /\ data = NoCall
    /\ response = NoCall

\* content = record.serialize()
Serialize ==
    /\ stage = "record"
    /\ content' = serialize(input)
    /\ stage' = "content"
    /\ UNCHANGED <<input, raw_data, data, response>>
    /\ UNCHANGED evars

\* raw_data = RTData.from_string(content)
FromString ==
    /\ stage = "content"
    /\ raw_data' = from_string(content)
    /\ stage' = IF raw_data'.exc = "none" THEN "raw" ELSE "raised"
    /\ UNCHANGED <<input, content, data, response>>
    /\ UNCHANGED evars

\* data = raw_data.deserialize()
Deserialize ==
    /\ stage = "raw"
    /\ data' = deserialize(raw_data.data)
    /\ stage' = IF data'.exc = "none" THEN "done" ELSE "raised"
    /\ UNCHANGED <<input, content, raw_data, response>>
    /\ UNCHANGED evars

RoundTripNext == Serialize \/ FromString \/ Deserialize

SpecRoundTrip == RoundTripInit /\ [][RoundTripNext]_vars

\* -- RTMultipartData.serialize, from_string on a MultiRecord ---------------
MaxRecords == 3

\* RTMultipartData.serialize: the parts joined by '\n--\n\n'
multipart_serialize(items) ==
    Join([i \in 1..Len(items) |-> serialize(items[i])],
         <<"\n", "-", "-", "\n", "\n">>)

\* RTMultipartData.from_string
multipart_from_string(text) == multipart_from_lines(content_to_lines(text))

\* Records with single-line string values.
StringRecordPool ==
    <<<<<<Id, Str(<<"1">>)>>>>,
      <<<<Id, Str(<<"2">>)>>, <<Subject, Str(<<"x">>)>>>>,
      <<<<Subject, Str(<<"a", ":", "b">>)>>>>,
      <<<<Id, Str(<<"3">>)>>, <<Subject, Str(<<"x", " ", "y">>)>>>>>>

\* The MultiRecords of 1 to MaxRecords Records of the pool.
MultiRecords ==
    {[i \in 1..Len(f) |-> StringRecordPool[f[i]]] :
        f \in SeqsUpTo(1..Len(StringRecordPool), MaxRecords) \ {<<>>}}

MultipartRoundTripInit ==
    /\ EngineInit
    /\ stage = "multirecord"
    /\ input \in MultiRecords
    /\ content = <<>>
    /\ raw_data = NoCall
    /\ data = NoCall
    /\ response = NoCall

\* content = M.serialize()
MultipartSerialize ==
    /\ stage = "multirecord"
    /\ content' = multipart_serialize(input)
    /\ stage' = "content"
    /\ UNCHANGED <<input, raw_data, data, response>>
    /\ UNCHANGED evars

\* raw_data = RTMultipartData.from_string(content)
MultipartFromString ==
    /\ stage = "content"
    /\ raw_data' = multipart_from_string(content)
    /\ stage' = IF raw_data'.exc = "none" THEN "raw" ELSE "raised"
    /\ UNCHANGED <<input, content, data, response>>
    /\ UNCHANGED evars

MultipartRoundTripNext == MultipartSerialize \/ MultipartFromString

SpecMultipartRoundTrip == MultipartRoundTripInit /\ [][MultipartRoundTripNext]_vars

\* -- RTMultipartData.from_lines, deserialize on a multipart input ----------
\* Well-formed parts, as lines.
PartPool ==
    <<<<<<"i", "d", ":", " ", "1">>>>,
      <<<<"i", "d", ":", " ", "2">>, <<"S", "u", "b", "j", "e", "c", "t", ":", " ", "x">>>>,
      <<<<"T", "e", "x", "t", ":", " ", "a">>, <<" ", "b">>>>,
      <<<<"#", " ", "c">>, <<"R", "e", "q", "u", "e", "s", "t", "o", "r", "s", ":", " ", "a",
              ",", " ", "b">>>>>>

\* the separator of two parts
PartSeparator == <<<<>>, <<"-", "-">>, <<>>>>

RECURSIVE JoinParts(_)
\* the lines of the parts ps, a separator between two parts
JoinParts(ps) ==
    IF Len(ps) = 1 THEN PartPool[ps[1]]
    ELSE PartPool[ps[1]] \o PartSeparator \o JoinParts(Tail(ps))

MultipartInit ==
    /\ EngineInit
    /\ stage = "lines"
    /\ input \in SeqsUpTo(1..Len(PartPool), MaxParts) \ {<<>>}
    /\ content = JoinParts(input)
    /\ raw_data = NoCall
    /\ data = NoCall
    /\ response = NoCall

\* raw_data = RTMultipartData.from_lines(lines)
MultipartFromLines ==
    /\ stage = "lines"
    /\ raw_data' = multipart_from_lines(content)
    /\ stage' = IF raw_data'.exc = "none" THEN "raw" ELSE "raised"
    /\ UNCHANGED <<input, content, data, response>>
    /\ UNCHANGED evars

\* data = raw_data.deserialize()
MultipartDeserialize ==
    /\ stage = "raw"
    /\ data' = multipart_deserialize(raw_data.items)
    /\ stage' = IF data'.exc = "none" THEN "done" ELSE "raised"
    /\ UNCHANGED <<input, content, raw_data, response>>
    /\ UNCHANGED evars

MultipartNext == MultipartFromLines \/ MultipartDeserialize

SpecMultipart == MultipartInit /\ [][MultipartNext]_vars

\* -- RTResponse(content) on a response text --------------------------------
\* First lines of a response, with what a valid one holds.
MetaPool ==
    <<[line |-> <<"R", "T", "/", "4", ".", "0", ".", "5", " ", "2", "0", "0", " ", "O", "k">>,
            valid |-> TRUE,
       version |-> <<"4", ".", "0", ".", "5">>, status_code |-> <<"2", "0", "0">>,
               reason |-> <<"O", "k">>],
      [line |-> <<"R", "T", "/", "3", ".", "8", " ", "4", "0", "4", " ", "N", "o", "t", " ", "f",
              "o", "u", "n", "d">>, valid |-> TRUE,
       version |-> <<"3", ".", "8">>, status_code |-> <<"4", "0", "4">>, reason |-> <<"N", "o",
               "t", " ", "f", "o", "u", "n", "d">>],
      [line |-> <<"b", "o", "g", "u", "s">>, valid |-> FALSE,
       version |-> <<>>, status_code |-> <<>>, reason |-> <<>>],
      [line |-> <<"R", "T", "/", "4", " ", "2", "0", "0", " ", "O", "k">>, valid |-> FALSE,
       version |-> <<>>, status_code |-> <<>>, reason |-> <<>>],
      [line |-> <<"R", "T", "/", "4", ".", "0", ".", "5", " ", "2", "0", " ", "O", "k">>,
              valid |-> FALSE,
       version |-> <<>>, status_code |-> <<>>, reason |-> <<>>],
      [line |-> <<>>, valid |-> FALSE,
       version |-> <<>>, status_code |-> <<>>, reason |-> <<>>]>>

\* Detail lines, with the detail text of each.
DetailPool ==
    <<[line |-> <<"#", " ", "T", "i", "c", "k", "e", "t", " ", "1", "2", "3", "4", " ", "c", "r",
            "e", "a", "t", "e", "d", ".">>,
       detail |-> <<"T", "i", "c", "k", "e", "t", " ", "1", "2", "3", "4", " ", "c", "r", "e",
               "a", "t", "e", "d", ".">>],
      [line |-> <<"#", " ", " ", "o", "k", " ">>, detail |-> <<"o", "k">>]>>

\* Well-formed bodies, with the Record each one stands for.
BodyPool ==
    <<[lines |-> <<>>, record |-> <<>>],
      [lines |-> <<<<"i", "d", ":", " ", "1", "2", "3", "4">>>>,
       record |-> <<<<Id, Str(<<"1", "2", "3", "4">>)>>>>],
      [lines |-> <<<<"i", "d", ":", " ", "1">>, <<"T", "e", "x", "t", ":", " ", "a">>, <<" ",
              "b">>>>,
       record |-> <<<<Id, Str(<<"1">>)>>, <<Text, Str(<<"a", "\n", "b">>)>>>>],
      [lines |-> <<<<"R", "e", "q", "u", "e", "s", "t", "o", "r", "s", ":", " ", "a", ",", " ",
              "b">>>>,
       record |-> <<<<Requestors, List(<<<<"a">>, <<"b">>>>)>>>>]>>

\* The shapes of response texts: meta is 0 for a text of no line at all,
\* else the first line; gap is what follows the first line: nothing, an
\* empty line or a line of text; then the detail lines, an empty line if
\* there is a detail line and sep is set, and the body; nl says whether the
\* last line is terminated by a line break (a text that is one empty line
\* has it).
Shapes ==
    {s \in [meta : 0..Len(MetaPool), gap : {"none", "blank", "text"},
            details : SeqsUpTo(1..Len(DetailPool), MaxDetails),
            sep : BOOLEAN, body : 1..Len(BodyPool), nl : BOOLEAN,
            multipart : BOOLEAN] :
        /\ s.meta = 0 => s.gap = "none" /\ ~s.nl /\ ~s.multipart
        /\ s.gap # "blank" => s.details = <<>> /\ s.body = 1
        /\ s.details = <<>> => s.sep
        /\ (s.meta # 0 /\ MetaPool[s.meta].line = <<>> /\ s.gap = "none") => s.nl}

\* the lines of a response of shape s
ShapeLines(s) ==
    IF s.meta = 0 THEN <<>>
    ELSE <<MetaPool[s.meta].line>>
         \o (CASE s.gap = "none" -> <<>>
               [] s.gap = "text" -> <<<<"x", ":", " ", "1">>>>
               [] s.gap = "blank" ->
                    <<<<>>>>
                    \o [i \in 1..Len(s.details) |-> DetailPool[s.details[i]].line]
                    \o (IF s.details # <<>> /\ s.sep THEN <<<<>>>> ELSE <<>>)
                    \o BodyPool[s.body].lines)

\* the text of a response of shape s
ShapeText(s) == Join(ShapeLines(s), <<"\n">>) \o (IF s.nl THEN <<"\n">> ELSE <<>>)

ResponseInit ==
    /\ EngineInit
    /\ stage = "content"
    /\ input \in Shapes
    /\ content = ShapeText(input)
    /\ raw_data = NoCall
    /\ data = NoCall
    /\ response = NoCall

\* response = RTResponse(content, multipart=...)
ParseResponse ==
    /\ stage = "content"
    /\ response' = RTResponse(content, input.multipart)
    /\ stage' = IF response'.exc = "none" THEN "done" ELSE "raised"
    /\ UNCHANGED <<input, content, raw_data, data>>
    /\ UNCHANGED evars

ResponseNext == ParseResponse

SpecResponse == ResponseInit /\ [][ResponseNext]_vars

\* -- RTData.from_lines on a list of lines ---------------------------------
MaxLines == 4

\* Lines of each kind RTData.from_lines tells apart, with what a key line
\* holds: key lines (one key twice, one without inline value, one inline
\* value with a trailing space), continuation lines of two indentations, a
\* continuation line of spaces only, an empty line, a comment line and two
\* lines that are none of these (one begins with a tab).
LinePool ==
    <<[line |-> <<"a", ":", " ", "1">>, kind |-> "key", key |-> <<"a">>, value |-> <<"1">>],
      [line |-> <<"b", ":">>, kind |-> "key", key |-> <<"b">>, value |-> <<>>],
      [line |-> <<"a", ":", " ", "2", " ">>, kind |-> "key", key |-> <<"a">>, value |-> <<"2",
              " ">>],
      [line |-> <<" ", " ", "x">>, kind |-> "continuation", key |-> <<>>, value |-> <<>>],
      [line |-> <<" ", " ", " ", " ", "y">>, kind |-> "continuation", key |-> <<>>, value |-> <<>>],
      [line |-> <<" ", " ">>, kind |-> "continuation", key |-> <<>>, value |-> <<>>],
      [line |-> <<>>, kind |-> "blank", key |-> <<>>, value |-> <<>>],
      [line |-> <<"#", " ", "c">>, kind |-> "comment", key |-> <<>>, value |-> <<>>],
      [line |-> <<"z", "z">>, kind |-> "other", key |-> <<>>, value |-> <<>>],
      [line |-> <<"\t", "q">>, kind |-> "other", key |-> <<>>, value |-> <<>>]>>

\* the lines named by a sequence of pool indices
PoolLines(s) == [i \in 1..Len(s) |-> LinePool[s[i]].line]

FromLinesInit ==
    /\ EngineInit
    /\ stage = "lines"
    /\ input \in SeqsUpTo(1..Len(LinePool), MaxLines)
    /\ content = PoolLines(input)
    /\ raw_data = NoCall
    /\ data = NoCall
    /\ response = NoCall

\* raw_data = RTData.from_lines(lines)
FromLines ==
    /\ stage = "lines"
    /\ raw_data' = from_lines(content)
    /\ stage' = IF raw_data'.exc = "none" THEN "raw" ELSE "raised"
    /\ UNCHANGED <<input, content, data, response>>
    /\ UNCHANGED evars

FromLinesNext == FromLines

SpecFromLines == FromLinesInit /\ [][FromLinesNext]_vars

(***************************************************************************)
(* rt/data.py: custom fields. The results of the operations are records:   *)
(* exc is "none" when the call returned, value is what it returned, data   *)
(* is the container after the call.                                        *)
(***************************************************************************)
\* re.search(CUSTOM_FIELD_RE, name) with the name group found to be the n
\* characters after 'CF.{': an optional '?' and '}' must follow, at the end
\* of the string or before its final newline
CFMatchEnd(name, n) ==
    LET p == IF At(name, 5 + n) = "?" THEN 6 + n ELSE 5 + n
    IN /\ n >= 1
       /\ At(name, p) = "}"
       /\ \/ Len(name) = p
          \/ Len(name) = p + 1 /\ name[p + 1] = "\n"

\* parse_cf_name: the name group when the name matches, else None
parse_cf_name(name) ==
    IF /\ StartsWith(name, <<"C", "F", ".", "{">>)
       /\ CFMatchEnd(name, SpanLen(name, 5, KeyChars))
      THEN [matched |-> TRUE, name |-> SubSeq(name, 5, 4 + SpanLen(name, 5, KeyChars))]
      ELSE [matched |-> FALSE, name |-> <<>>]

\* to_cf_name: 'cf_name or "CF.{%s}" % name'
to_cf_name(name) ==
    IF parse_cf_name(name).matched THEN parse_cf_name(name).name
    ELSE <<"C", "F", ".", "{">> \o name \o <<"}">>

\* (variant) the name is used as the key, unwrapped
_cf_name_Bare(name) ==
    IF parse_cf_name(name).matched
      THEN [exc |-> "KeyError", name |-> parse_cf_name(name).name]
      ELSE [exc |-> "none", name |-> name]

\* (variant) a name in the wrapped form is accepted
_cf_name_Lenient(name) == [exc |-> "none", name |-> to_cf_name(name)]

\* RTCustomFields._cf_name
_cf_name(name) ==
    IF parse_cf_name(name).matched
      THEN [exc |-> "KeyError", name |-> parse_cf_name(name).name]
      ELSE [exc |-> "none", name |-> to_cf_name(name)]

\* the positions of key k in the container d
IndexOf(d, k) == {i \in 1..Len(d) : d[i][1] = k}

\* OrderedDict.__getitem__
GetItem(d, k) ==
    IF IndexOf(d, k) = {} THEN [exc |-> "KeyError", value |-> k, data |-> d]
    ELSE [exc |-> "none", value |-> d[Least(IndexOf(d, k))][2], data |-> d]

\* what is left of d without its i-th item
Without(d, i) == SubSeq(d, 1, i - 1) \o SubSeq(d, i + 1, Len(d))

\* OrderedDict.__delitem__
DelItem(d, k) ==
    IF IndexOf(d, k) = {} THEN [exc |-> "KeyError", value |-> k, data |-> d]
    ELSE [exc |-> "none", value |-> <<>>, data |-> Without(d, Least(IndexOf(d, k)))]

\* RTCustomFields.__getitem__, cf being self._cf_name(name)
CFGetItem(d, cf) ==
    IF cf.exc # "none" THEN [exc |-> cf.exc, value |-> cf.name, data |-> d]
    ELSE GetItem(d, cf.name)

\* RTCustomFields.__setitem__, cf being self._cf_name(name)
CFSetItem(d, cf, v) ==
    IF cf.exc # "none" THEN [exc |-> cf.exc, value |-> cf.name, data |-> d]
    ELSE [exc |-> "none", value |-> <<>>, data |-> SetItem(d, cf.name, v)]

\* RTCustomFields.__delitem__, cf being self._cf_name(name)
CFDelItem(d, cf) ==
    IF cf.exc # "none" THEN [exc |-> cf.exc, value |-> cf.name, data |-> d]
    ELSE DelItem(d, cf.name)

RECURSIVE CFIter(_)
\* RTCustomFields.__iter__: the names it yields, in order
CFIter(d) ==
    IF d = <<>> THEN <<>>
    ELSE (IF parse_cf_name(Head(d)[1]).matched
            THEN <<parse_cf_name(Head(d)[1]).name>> ELSE <<>>)
         \o CFIter(Tail(d))

\* RTCustomFields.__len__
CFLen(d) == Len(CFIter(d))

\* -- operations on an RTData and its custom_fields view -------------------
MaxOps == 3

\* Names used with the custom_fields view: bare names, and names already
\* in the wrapped form.
NamePool ==
    <<[name |-> <<"X", "Y", "Z">>, wrapped |-> FALSE],
      [name |-> <<"a", " ", "b">>, wrapped |-> FALSE],
      [name |-> <<"C", "F", ".", "{", "X", "Y", "Z", "}">>, wrapped |-> TRUE],
      [name |-> <<"C", "F", ".", "{", "a", "-", "b", "?", "}">>, wrapped |-> TRUE]>>

\* Keys used with the container: a field that is no custom field, and
\* custom fields by their wrapped keys (inner is the bare name).
ContainerKeyPool ==
    <<[key |-> Subject, custom |-> FALSE, inner |-> <<>>],
      [key |-> <<"C", "F", ".", "{", "X", "Y", "Z", "}">>, custom |-> TRUE, inner |-> <<"X", "Y",
              "Z">>],
      [key |-> <<"C", "F", ".", "{", "a", " ", "b", "}">>, custom |-> TRUE, inner |-> <<"a", " ",
              "b">>]>>

ValuePool == {<<"v">>, <<"w">>}

NoOp == [op |-> "RTData", name |-> <<>>, value |-> <<>>]

\* data = RTData()
CustomFieldsInit ==
    /\ EngineInit
    /\ stage = "record"
    /\ input = NoOp
    /\ content = <<>>
    /\ raw_data = [exc |-> "none", data |-> <<>>]
    /\ data = [exc |-> "none", data |-> <<>>]
    /\ response = NoCall

\* What every operation leaves behind: the operation, the container before
\* and after it, and what it returned or raised.
Performed(op, r) ==
    /\ Len(content) < MaxOps
    /\ input' = op
    /\ content' = Append(content, op)
    /\ raw_data' = data
    /\ data' = [exc |-> "none", data |-> r.data]
    /\ response' = [exc |-> r.exc, value |-> r.value]
    /\ stage' = IF r.exc = "none" THEN "done" ELSE "raised"
    /\ UNCHANGED evars

\* data[key] = value
ContainerSet ==
    \E k \in 1..Len(ContainerKeyPool), v \in ValuePool :
        Performed([op |-> "setitem", name |-> ContainerKeyPool[k].key, value |-> v],
                  [exc |-> "none", value |-> <<>>,
                   data |-> SetItem(data.data, ContainerKeyPool[k].key, v)])

\* data.custom_fields[name] = value
CustomFieldSet ==
    \E n \in 1..Len(NamePool), v \in ValuePool :
        Performed([op |-> "cf_setitem", name |-> NamePool[n].name, value |-> v],
                  CFSetItem(data.data, _cf_name(NamePool[n].name), v))

\* data.custom_fields[name]
CustomFieldGet ==
    \E n \in 1..Len(NamePool) :
        Performed([op |-> "cf_getitem", name |-> NamePool[n].name, value |-> <<>>],
                  CFGetItem(data.data, _cf_name(NamePool[n].name)))

\* del data.custom_fields[name]
CustomFieldDel ==
    \E n \in 1..Len(NamePool) :
        Performed([op |-> "cf_delitem", name |-> NamePool[n].name, value |-> <<>>],
                  CFDelItem(data.data, _cf_name(NamePool[n].name)))

CustomFieldsNext == ContainerSet \/ CustomFieldSet \/ CustomFieldGet \/ CustomFieldDel

SpecCustomFields == CustomFieldsInit /\ [][CustomFieldsNext]_vars

(***************************************************************************)
(* rt/frontend.py: a Task on its own, set_result called by several         *)
(* threads. data is the Task (result, ready); content holds, per thread,   *)
(* its position in set_result, the argument of its call and the number of  *)
(* calls it has made; input is the last step taken, raw_data the Task      *)
(* before it, response what the last finished call raised.                 *)
(***************************************************************************)
MaxSetters == 2
MaxCalls == 2

Setters == 1..MaxSetters

\* the results passed to set_result: two values and an exception
ResultPool == {Value(1, 1), Value(1, 2), Error("Exception", 1, 1)}

\* Task.__init__: self.ready = Event(); self.result = PENDING
NewTask == [result |-> PENDING, ready |-> FALSE]

\* (variant) the test of set_result always passes
AlreadySet_Never(task) == FALSE

\* Task.set_result: 'self.result is not PENDING'
AlreadySet(task) == task.result # PENDING

TaskInit ==
    /\ EngineInit
    /\ stage = "idle"
    /\ input = [thread |-> 0, step |-> "Task", arg |-> PENDING]
    /\ content = [s \in Setters |-> [pc |-> "idle", arg |-> PENDING, calls |-> 0]]
    /\ raw_data = NewTask
    /\ data = NewTask
    /\ response = NoCall

\* A thread calls set_result(r) and runs its test: ValueError when the
\* result is already set.
SetResultTest(s) ==
    \E r \in ResultPool :
        /\ content[s].pc = "idle"
        /\ content[s].calls < MaxCalls
        /\ input' = [thread |-> s, step |-> "test", arg |-> r]
        /\ raw_data' = data
        /\ IF AlreadySet(data)
             THEN /\ content' = [content EXCEPT ![s] =
                                    [pc |-> "idle", arg |-> r, calls |-> @.calls + 1]]
                  /\ response' = [exc |-> "ValueError"]
                  /\ stage' = "raised"
             ELSE /\ content' = [content EXCEPT ![s] =
                                    [pc |-> "assign", arg |-> r, calls |-> @.calls + 1]]
                  /\ response' = NoCall
                  /\ stage' = "call"
        /\ UNCHANGED data
        /\ UNCHANGED evars

\* self.result = result
SetResultAssign(s) ==
    /\ content[s].pc = "assign"
    /\ input' = [thread |-> s, step |-> "assign", arg |-> content[s].arg]
    /\ raw_data' = data
    /\ data' = [data EXCEPT !.result = content[s].arg]
    /\ content' = [content EXCEPT ![s].pc = "set"]
    /\ stage' = "call"
    /\ UNCHANGED response
    /\ UNCHANGED evars

\* self.ready.set(); set_result returns
SetResultReady(s) ==
    /\ content[s].pc = "set"
    /\ input' = [thread |-> s, step |-> "set", arg |-> content[s].arg]
    /\ raw_data' = data
    /\ data' = [data EXCEPT !.ready = TRUE]
    /\ content' = [content EXCEPT ![s].pc = "idle"]
    /\ response' = NoCall
    /\ stage' = "done"
    /\ UNCHANGED evars

TaskNext == \E s \in Setters : SetResultTest(s) \/ SetResultAssign(s) \/ SetResultReady(s)

SpecTask == TaskInit /\ [][TaskNext]_vars

\* -- to_cf_name applied to a field name, and to its result -----------------
MaxNameLen == 3

\* The inner names of custom fields: letters, digits, underscores, spaces
\* and dashes, then an optional '?'.
InnerNames ==
    {n \o q : n \in SeqsUpTo({"a", "_", " ", "-"}, MaxNameLen) \ {<<>>},
              q \in {<<>>, <<"?">>}}

\* Field names: the inner names as they are, and in the custom field form.
FieldNames ==
    {[name |-> n, custom |-> FALSE] : n \in InnerNames}
    \cup {[name |-> <<"C", "F", ".", "{">> \o n \o <<"}">>, custom |-> TRUE] : n \in InnerNames}

ToCfNameInit ==
    /\ EngineInit
    /\ stage = "record"
    /\ input \in FieldNames
    /\ content = <<>>
    /\ raw_data = <<>>
    /\ data = NoCall
    /\ response = NoCall

\* content = to_cf_name(name)
ToCfName ==
    /\ stage = "record"
    /\ content' = to_cf_name(input.name)
    /\ stage' = "content"
    /\ UNCHANGED <<input, raw_data, data, response>>
    /\ UNCHANGED evars

\* raw_data = to_cf_name(content)
ToCfNameAgain ==
    /\ stage = "content"
    /\ raw_data' = to_cf_name(content)
    /\ stage' = "done"
    /\ UNCHANGED <<input, content, data, response>>
    /\ UNCHANGED evars

ToCfNameNext == ToCfName \/ ToCfNameAgain

SpecToCfName == ToCfNameInit /\ [][ToCfNameNext]_vars

(***************************************************************************)
(* RTSession: login, logout and request on one session                     *)
(***************************************************************************)
MaxSessionCalls == 3

\* What the transport gives back for a request that is sent: an HTTP status,
\* or an exception raised by the transport itself.
ServerReplies == {"200", "302", "500", "ConnectionError"}

\* acceptable_status_codes: the default of request, and auth_request_args
DefaultAcceptable == {"200"}
AuthAcceptable == {"200", "302"}

\* (variant) RTSession.request without the test of the logged-in flag
session_request_Unchecked(li, require_auth, acceptable, reply) ==
    IF reply = "ConnectionError"
      THEN [sent |-> TRUE, exc |-> "ConnectionError", status |-> "none"]
    ELSE IF reply \notin acceptable
      THEN [sent |-> TRUE,
            exc |-> IF reply = "302" THEN "RTAuthenticationError"
                    ELSE "RTUnexpectedStatusCodeError",
            status |-> reply]
    ELSE [sent |-> TRUE, exc |-> "none", status |-> reply]

\* RTSession.request: the login test, then super().request and the test of
\* the status code. The parsing of an accepted response is not modelled.
session_request(li, require_auth, acceptable, reply) ==
    IF require_auth /\ ~li
      THEN [sent |-> FALSE, exc |-> "RTAuthenticationError", status |-> "none"]
    ELSE IF reply = "ConnectionError"
      THEN [sent |-> TRUE, exc |-> "ConnectionError", status |-> "none"]
    ELSE IF reply \notin acceptable
      THEN [sent |-> TRUE,
            exc |-> IF reply = "302" THEN "RTAuthenticationError"
                    ELSE "RTUnexpectedStatusCodeError",
            status |-> reply]
    ELSE [sent |-> TRUE, exc |-> "none", status |-> reply]

\* What a call did: whether something was sent, the exception raised, the
\* value returned and the logged-in flag after the call.
CallResult(sent, exc, value, li) ==
    [sent |-> sent, exc |-> exc, value |-> value, logged_in |-> li]

\* The rest of login once the post was made (r is what the post gave).
LoginAfterPost(li, r) ==
    IF r.exc # "none" THEN CallResult(r.sent, r.exc, "none", li)
    ELSE IF r.status = "302"
      THEN CallResult(TRUE, "RTAuthenticationError", "none", li)
    ELSE CallResult(TRUE, "none", "True", TRUE)

\* RTSession.login
session_login(li, reply) ==
    IF li THEN CallResult(FALSE, "none", "False", li)
    ELSE LoginAfterPost(li, session_request(li, FALSE, AuthAcceptable, reply))

\* The rest of logout once the post was made.
LogoutAfterPost(li, r) ==
    IF r.exc # "none" THEN CallResult(r.sent, r.exc, "none", li)
    ELSE CallResult(TRUE, "none",
                    IF r.status = "200" THEN "True" ELSE "False", FALSE)

\* RTSession.logout
session_logout(li, reply) ==
    IF ~li THEN CallResult(FALSE, "none", "False", li)
    ELSE LogoutAfterPost(li, session_request(li, FALSE, AuthAcceptable, reply))

\* A request made through get/post/...: the response is the value.
RequestCall(li, r) ==
    CallResult(r.sent, r.exc, IF r.exc = "none" THEN "response" ELSE "none", li)

\* RTSession.__init__: self.logged_in = False
SessionInit ==
    /\ EngineInit
    /\ stage = "session"
    /\ input = [call |-> "__init__", require_auth |-> FALSE, reply |-> "none"]
    /\ content = <<>>
    /\ raw_data = [logged_in |-> FALSE]
    /\ data = [logged_in |-> FALSE]
    /\ response = CallResult(FALSE, "none", "none", FALSE)

\* One call on the session: input is the call, raw_data the session before
\* it, data the session after it, response what the call did, and content
\* the calls made so far with what each did.
SessionCalled(call, res) ==
    /\ Len(content) < MaxSessionCalls
    /\ input' = call
    /\ raw_data' = data
    /\ data' = [logged_in |-> res.logged_in]
    /\ response' = res
    /\ content' = Append(content, [call |-> call, before |-> data.logged_in,
                                   result |-> res])
    /\ stage' = "session"
    /\ UNCHANGED evars

SessionLogin ==
    \E reply \in ServerReplies :
        SessionCalled([call |-> "login", require_auth |-> FALSE, reply |-> reply],
                      session_login(data.logged_in, reply))

SessionLogout ==
    \E reply \in ServerReplies :
        SessionCalled([call |-> "logout", require_auth |-> FALSE, reply |-> reply],
                      session_logout(data.logged_in, reply))

SessionRequest ==
    \E reply \in ServerReplies : \E auth \in BOOLEAN :
        SessionCalled([call |-> "request", require_auth |-> auth, reply |-> reply],
                      RequestCall(data.logged_in,
                          session_request(data.logged_in, auth,
                                          DefaultAcceptable, reply)))

SessionNext == SessionLogin \/ SessionLogout \/ SessionRequest

SpecSession == SessionInit /\ [][SessionNext]_vars

\* -- iterating the custom_fields view of an RTData -------------------------
MaxKeys == 2

\* Keys of a container: a field that is no custom field, and wrapped keys
\* of custom fields, with and without the trailing '?'.
ViewKeyPool ==
    <<[key |-> Subject, custom |-> FALSE],
      [key |-> <<"C", "F", ".", "{", "X", "Y", "Z", "}">>, custom |-> TRUE],
      [key |-> <<"C", "F", ".", "{", "a", " ", "b", "}">>, custom |-> TRUE],
      [key |-> <<"C", "F", ".", "{", "X", "Y", "Z", "?", "}">>, custom |-> TRUE],
      [key |-> <<"C", "F", ".", "{", "a", "-", "b", "?", "}">>, custom |-> TRUE]>>

\* The containers of up to MaxKeys keys of the pool, no key twice:
\* <<key, value>> pairs in insertion order.
ViewContainers ==
    {[i \in 1..Len(f) |-> <<ViewKeyPool[f[i][1]].key, f[i][2]>>] :
        f \in {g \in SeqsUpTo((1..Len(ViewKeyPool)) \X ValuePool, MaxKeys) :
                  \A i, j \in 1..Len(g) : i # j => g[i][1] # g[j][1]}}

\* data = RTData(...)
ViewInit ==
    /\ EngineInit
    /\ stage = "record"
    /\ input = [op |-> "RTData", index |-> 0]
    /\ content = <<>>
    /\ raw_data = NoCall
    /\ data \in ViewContainers
    /\ response = NoCall

\* content = list(data.custom_fields)
ViewIterate ==
    /\ stage = "record"
    /\ content' = CFIter(data)
    /\ input' = [op |-> "iter", index |-> 0]
    /\ stage' = "names"
    /\ UNCHANGED <<raw_data, data, response>>
    /\ UNCHANGED evars

\* raw_data = len(data.custom_fields)
ViewLen ==
    /\ stage = "names"
    /\ raw_data' = [exc |-> "none", value |-> CFLen(data)]
    /\ input' = [op |-> "len", index |-> 0]
    /\ stage' = "counted"
    /\ UNCHANGED <<content, data, response>>
    /\ UNCHANGED evars

\* response = data.custom_fields[n] for the i-th name n that was yielded
ViewGetItem ==
    \E i \in 1..Len(content) :
        /\ stage \in {"counted", "read"}
        /\ input.index < i
        /\ response' = CFGetItem(data, _cf_name(content[i]))
        /\ input' = [op |-> "getitem", index |-> i]
        /\ stage' = "read"
        /\ UNCHANGED <<content, raw_data, data>>
        /\ UNCHANGED evars

ViewNext == ViewIterate \/ ViewLen \/ ViewGetItem

SpecCustomFieldView == ViewInit /\ [][ViewNext]_vars

(***************************************************************************)
(* Properties of the record serializer / parser (checked under             *)
(* SpecRoundTrip and SpecMultipart).                                       *)
(***************************************************************************)
\* C7: for every Record whose values are of the declared types,
\* deserialize(RTData.from_string(serialize(R))) returns, and returns a
\* Record equal to R in field order and in values.
C7_RoundTrip ==
    /\ stage # "raised"
    /\ stage = "done" => data.data = input

\* C8: from_lines on k >= 1 well-formed parts separated by (blank, '--',
\* blank) yields exactly k Records, the i-th one being the single-record
\* parse of the i-th part; deserialize of a MultiRecord of length k returns
\* a MultiRecord of length k.
C8_MultipartParts ==
    /\ stage # "raised"
    /\ stage \in {"raw", "done"} =>
          /\ Len(raw_data.items) = Len(input)
          /\ \A i \in 1..Len(input) :
                raw_data.items[i] = from_lines(PartPool[input[i]]).data
    /\ stage = "done" => Len(data.items) = Len(raw_data.items)

(***************************************************************************)
(* Properties of the response parser (checked under SpecResponse).         *)
(***************************************************************************)
\* The response text is a valid meta line, one empty line, zero or more
\* detail lines followed (when there is one) by one empty line, and a
\* well-formed body, parsed as a single Record. (An empty line that ends
\* the text is in the text only when it is terminated.)
C9_Case ==
    /\ input.meta # 0
    /\ MetaPool[input.meta].valid
    /\ input.gap = "blank"
    /\ input.sep
    /\ ~input.multipart
    /\ input.nl \/ BodyPool[input.body].lines # <<>>

\* C9: for every such response text, parsing succeeds and exposes the
\* version, the status code and the reason of the meta line, the detail
\* texts in input order and their newline join, and the body parsed and
\* deserialized.
C9_ResponseParsed ==
    (stage # "content" /\ C9_Case) =>
        /\ response.exc = "none"
        /\ response.version = MetaPool[input.meta].version
        /\ response.status_code = MetaPool[input.meta].status_code
        /\ response.reason = MetaPool[input.meta].reason
        /\ response.details =
              [i \in 1..Len(input.details) |-> DetailPool[input.details[i]].detail]
        /\ response.detail = Join(response.details, <<"\n">>)
        /\ response.data = BodyPool[input.body].record

\* C10: empty input raises the missing-header error; a first line that does
\* not match the meta grammar raises the malformed-header error; a valid
\* meta line that is not immediately followed by an empty line (the next
\* line is non-empty, or there is no next line) raises the malformed-header
\* error.
C10_HeaderErrors ==
    stage # "content" =>
        IF input.meta = 0 THEN response.exc = "RTMissingResponseHeaderError"
        ELSE IF ~MetaPool[input.meta].valid
               THEN response.exc = "RTMalformedResponseHeaderError"
        ELSE input.gap \in {"none", "text"}
                => response.exc = "RTMalformedResponseHeaderError"

(***************************************************************************)
(* Properties of RTData.from_lines (checked under SpecFromLines).          *)
(***************************************************************************)
\* the lines of a field value
ValueLines(v) == Range(Split(v, "\n"))

\* C11: a line starting with '#' is never part of any field's value,
\* wherever it occurs in the input: no line of a value of the returned
\* Record starts with '#'.
C11_CommentsNeverInValues ==
    stage = "raw" =>
        \A f \in 1..Len(raw_data.data) :
            \A l \in ValueLines(raw_data.data[f][2]) : ~IsCommentLine(l)

\* the positions of the key lines of the input, and of those with key k
KeyPositions == {i \in 1..Len(input) : LinePool[input[i]].kind = "key"}
PositionsOf(k) == {i \in KeyPositions : LinePool[input[i]].key = k}
Greatest(S) == CHOOSE i \in S : \A j \in S : j <= i

\* the value of the occurrence of a key at line i: what from_lines returns
\* for the key line and the lines after it up to the next key line
OccurrenceValue(i) ==
    LET next == {j \in KeyPositions : j > i}
        last == IF next = {} THEN Len(content) ELSE Least(next) - 1
    IN from_lines(SubSeq(content, i, last)).data[1][2]

\* C15: when from_lines returns, the Record has no key twice, its keys are
\* the keys of the key lines in the order of their first occurrences, and
\* the value of each key is the value of its last occurrence.
C15_LastValueFirstPosition ==
    stage = "raw" =>
        /\ \A f, g \in 1..Len(raw_data.data) :
              f # g => raw_data.data[f][1] # raw_data.data[g][1]
        /\ {raw_data.data[f][1] : f \in 1..Len(raw_data.data)}
              = {LinePool[input[i]].key : i \in KeyPositions}
        /\ \A f, g \in 1..Len(raw_data.data) :
              f < g => Least(PositionsOf(raw_data.data[f][1]))
                          < Least(PositionsOf(raw_data.data[g][1]))
        /\ \A f \in 1..Len(raw_data.data) :
              raw_data.data[f][2]
                 = OccurrenceValue(Greatest(PositionsOf(raw_data.data[f][1])))

\* a key occurs twice with different values, another key in between
C15_Witness ==
    /\ stage = "raw"
    /\ Len(raw_data.data) = 2
    /\ \E i, j \in PositionsOf(raw_data.data[1][1]) :
          /\ i < j
          /\ OccurrenceValue(i) # OccurrenceValue(j)
          /\ \E m \in PositionsOf(raw_data.data[2][1]) : i < m /\ m < j

\* the lines after line i up to the next key line or the end of the input
BlockAfter(i) ==
    LET next == {j \in KeyPositions : j > i}
    IN SubSeq(content, i + 1, IF next = {} THEN Len(content) ELSE Least(next) - 1)

\* the number of spaces a line begins with, and the least of those of the
\* lines of a block that have the property Counted
LeadingSpaces(line) == SpanLen(line, 1, {" "})
LeastIndent(block, Counted(_)) ==
    LET ns == {LeadingSpaces(block[b]) : b \in {c \in 1..Len(block) : Counted(block[c])}}
    IN IF ns = {} THEN 0 ELSE Least(ns)

\* the inline value, if not empty, joined by a newline with the block, and
\* the result trimmed at its outer edges
InlineAndBlock(inline, block) ==
    Strip(Join((IF inline # <<>> THEN <<inline>> ELSE <<>>)
                  \o (IF block # <<>> THEN <<Join(block, <<"\n">>)>> ELSE <<>>),
               <<"\n">>))

AnyLine(line) == TRUE
HasText(line) == LeadingSpaces(line) < Len(line)

\* the block without the longest common leading whitespace of all its lines
BlockDedented(block) ==
    [b \in 1..Len(block) |-> From(block[b], LeastIndent(block, AnyLine) + 1)]

\* the block without the longest common leading whitespace of its lines
\* that are not made of whitespace only, those lines being made empty
BlockDedentedOfText(block) ==
    [b \in 1..Len(block) |->
        IF HasText(block[b]) THEN From(block[b], LeastIndent(block, HasText) + 1)
        ELSE <<>>]

\* The input is key lines and continuation lines only, no key twice.
C16_Case ==
    /\ \A i \in 1..Len(input) : LinePool[input[i]].kind \in {"key", "continuation"}
    /\ \A i, j \in KeyPositions : i # j => LinePool[input[i]].key # LinePool[input[j]].key

OffendingPositions == {i \in 1..Len(input) : LinePool[input[i]].kind = "other"}

\* C17: from_lines raises the grammar error (ValueError), carrying the
\* offending line, if and only if the input has a line that is non-empty,
\* does not start with '#', does not match the key-line pattern and does
\* not start with a space; otherwise it returns a Record.
C17_GrammarError ==
    stage # "lines" =>
        IF OffendingPositions # {}
          THEN /\ stage = "raised"
               /\ raw_data.exc = "ValueError"
               /\ raw_data.detail = content[Least(OffendingPositions)]
          ELSE /\ stage = "raw"
               /\ raw_data.exc = "none"

\* the error is raised for a line that follows a key line and its
\* continuation line, a second offending line following
C17_Witness ==
    /\ stage = "raised"
    /\ Len(input) = 4
    /\ LinePool[input[1]].kind = "key"
    /\ LinePool[input[2]].kind = "continuation"
    /\ OffendingPositions = {3, 4}
    /\ input[3] # input[4]
    /\ raw_data.detail = content[3]

\* The text has a valid meta line, an empty line and at least one detail
\* line, and the line after the detail lines is non-empty (the first line
\* of the body) or absent (the detail lines end the text, or the empty line
\* after them is the unterminated end of the text).
C18_Case ==
    /\ input.meta # 0
    /\ MetaPool[input.meta].valid
    /\ input.gap = "blank"
    /\ input.details # <<>>
    /\ \/ ~input.sep
       \/ BodyPool[input.body].lines = <<>> /\ ~input.nl

\* C18: if at least one detail line was collected and the line immediately
\* following the detail lines is non-empty or absent, parsing fails with the
\* malformed-header error and no result is produced.
C18_DetailRunEnd ==
    (stage # "content" /\ C18_Case) =>
        /\ stage = "raised"
        /\ response.exc = "RTMalformedResponseHeaderError"

(***************************************************************************)
(* Properties of the custom-field view (checked under SpecCustomFields).   *)
(***************************************************************************)
\* the wrapped key of a bare name
Wrapped(n) == <<"C", "F", ".", "{">> \o n \o <<"}">>

BareNames == {NamePool[n].name : n \in {m \in 1..Len(NamePool) : ~NamePool[m].wrapped}}
WrappedNames == {NamePool[n].name : n \in {m \in 1..Len(NamePool) : NamePool[m].wrapped}}

\* the custom fields of the container d by their keys, in its order, and
\* the bare name of the j-th of them
CustomItems(d) ==
    SelectSeq(d, LAMBDA p : \E k \in 1..Len(ContainerKeyPool) :
                                /\ ContainerKeyPool[k].custom
                                /\ ContainerKeyPool[k].key = p[1])
InnerOf(key) ==
    ContainerKeyPool[CHOOSE k \in 1..Len(ContainerKeyPool) :
                         ContainerKeyPool[k].key = key].inner

\* the call returned the value v
Returned(r, v) == r.exc = "none" /\ r.value = v

\* both reads raise, or both return the same value
SameRead(a, b) == a.exc = b.exc /\ (a.exc = "none" => a.value = b.value)

\* C19: after any sequence of writes, a value written through
\* custom_fields[n] for a bare name n is read back as container['CF.{n}']
\* and as custom_fields[n]; a value written as container['CF.{n}'] is read
\* back as custom_fields[n]; at any time the two ways of reading a custom
\* field agree; iterating custom_fields yields the bare names of the
\* container's custom fields in the container's order, never a wrapped key
\* or a field that is no custom field.
C19_CustomFieldAliasing ==
    /\ (input.op = "cf_setitem" /\ input.name \in BareNames) =>
          /\ stage = "done"
          /\ Returned(GetItem(data.data, Wrapped(input.name)), input.value)
          /\ Returned(CFGetItem(data.data, _cf_name(input.name)), input.value)
    /\ \A n \in BareNames :
          (input.op = "setitem" /\ input.name = Wrapped(n)) =>
              Returned(CFGetItem(data.data, _cf_name(n)), input.value)
    /\ \A n \in BareNames :
          SameRead(CFGetItem(data.data, _cf_name(n)), GetItem(data.data, Wrapped(n)))
    /\ CFIter(data.data)
          = [j \in 1..Len(CustomItems(data.data)) |-> InnerOf(CustomItems(data.data)[j][1])]
    /\ \A j \in 1..Len(CFIter(data.data)) :
          /\ ~StartsWith(CFIter(data.data)[j], <<"C", "F", ".", "{">>)
          /\ \A k \in 1..Len(ContainerKeyPool) :
                ~ContainerKeyPool[k].custom => CFIter(data.data)[j] # ContainerKeyPool[k].key

\* a custom field written through the view, then a field that is no custom
\* field, then a custom field written by its wrapped key
C19_Witness ==
    /\ stage = "done"
    /\ Len(content) = 3
    /\ content[1].op = "cf_setitem"
    /\ content[2].op = "setitem"
    /\ content[3].op = "setitem"
    /\ Len(data.data) = 3
    /\ Len(CFIter(data.data)) = 2
    /\ data.data[2][1] = Subject
    /\ data.data[1][2] # data.data[3][2]

\* C20: a read, a write or a delete through the custom-field view with a
\* name already in the wrapped form raises an error (KeyError) and leaves
\* the underlying Record unchanged.
C20_WrappedNameRaises ==
    (input.op \in {"cf_getitem", "cf_setitem", "cf_delitem"} /\ input.name \in WrappedNames) =>
        /\ stage = "raised"
        /\ response.exc = "KeyError"
        /\ data = raw_data

\* a delete through the view by the wrapped key of a field the Record has
C20_Witness ==
    /\ stage = "raised"
    /\ input.op = "cf_delitem"
    /\ input.name \in WrappedNames
    /\ IndexOf(raw_data.data, input.name) # {}
    /\ Len(raw_data.data) = 2

(***************************************************************************)
(* Further properties of the dispatch engine (checked under Spec).         *)
(***************************************************************************)
\* C12: if add_task enqueues T1 before T2, then T1 is dequeued by some
\* worker before T2 is dequeued by any worker: whenever a task has been
\* dequeued, every task enqueued before it was dequeued before it.
C12_FifoDequeue ==
    \A i, j \in 1..Len(put_order) :
        i < j =>
            \A q \in 1..Len(get_order) :
                get_order[q] = put_order[j] =>
                    \E p \in 1..(q - 1) : get_order[p] = put_order[i]

\* two tasks dequeued by different workers, the one enqueued last is
\* completed while the one enqueued first is not
C12_Witness ==
    /\ Len(put_order) = 2
    /\ Len(get_order) = 2
    /\ dequeues[put_order[1]] # dequeues[put_order[2]]
    /\ task_ready[put_order[2]]
    /\ ~task_ready[put_order[1]]

\* the workers constructed so far
Constructed == 1..nworkers

\* The worker's thread is executing a call on its session: login and the
\* operation of perform_task, the logout before a retry, the logout of
\* dispose. (A step of the model is the whole call; the thread is in the
\* call from the step that leads to it to the step that is the call.)
InSessionCall(w) == wpc[w] \in {"perform", "relogin", "retry", "dispose"}

\* C14: no session handle is owned by two workers (every worker, each
\* replacement included, is built on an RTInterface of its own, which holds
\* its session), and no two threads execute login, logout or an operation
\* on the same session handle at the same time.
C14_SessionNotShared ==
    /\ \A v, w \in Constructed : v # w => wrapped[v] # wrapped[w]
    /\ \A w \in Constructed : wrapped[w] # 0
    /\ \A v, w \in Constructed :
          (v # w /\ InSessionCall(v) /\ InSessionCall(w)) => wrapped[v] # wrapped[w]

\* a replacement worker and the worker it replaced are both executing a
\* session call, as is a third worker
C14_Witness ==
    /\ nworkers = 3
    /\ \A w \in Constructed : InSessionCall(w)
    /\ \E w \in Constructed : wpc[w] = "dispose"
    /\ \E w \in Constructed : wpc[w] = "retry"

(***************************************************************************)
(* Liveness of the dispatch engine (checked under FairSpec).               *)
(***************************************************************************)
\* A health check cannot go on because it needs more Worker objects than
\* the model has.
OutOfWorkers ==
    \E t \in Tasks :
        /\ cpc[t] = "check"
        /\ Len(new_workers[t]) < Len(workers)
        /\ IsDead(workers[Len(new_workers[t]) + 1])
        /\ nworkers = MaxWorkers

\* C13: every worker that becomes dead (killed or expired) eventually
\* leaves its loop and ends after the one logout of dispose, under fair
\* scheduling (a failure of that logout is swallowed: Dispose ends the
\* thread whatever the logout did). Runs in which the model runs out of
\* Worker objects are left aside.
C13_DeadWorkerDisposes ==
    \A w \in WorkerIds :
        [](((wpc[w] # "unborn") /\ IsDead(w)) => <>(wpc[w] = "exit" \/ OutOfWorkers))

(***************************************************************************)
(* Properties of Task.set_result (checked under SpecTask).                 *)
(***************************************************************************)
\* C21: a call of set_result on a task whose result is already set raises
\* an error (ValueError) and leaves the stored result and the completion
\* signal unchanged.
C21_SetResultTwice ==
    (input.step = "test" /\ raw_data.result # PENDING) =>
        /\ stage = "raised"
        /\ response.exc = "ValueError"
        /\ data = raw_data
        /\ content[input.thread].pc = "idle"

\* set_result is called with another result on a task that is complete
C21_Witness ==
    /\ stage = "raised"
    /\ input.step = "test"
    /\ raw_data.result # PENDING
    /\ raw_data.ready
    /\ input.arg # raw_data.result

(***************************************************************************)
(* Properties of to_cf_name (checked under SpecToCfName).                  *)
(***************************************************************************)
\* C22: to_cf_name(name) is 'CF.{name}' for a bare field name and is name
\* itself when name is already formatted as a custom field name, so that
\* to_cf_name(to_cf_name(n)) = to_cf_name(n) for every field name n.
C22_ToCfNameIdempotent ==
    /\ stage \in {"content", "done"} =>
          content = IF input.custom THEN input.name ELSE Wrapped(input.name)
    /\ stage = "done" => raw_data = content

(***************************************************************************)
(* Further properties of the dispatch engine (checked under Spec).         *)
(***************************************************************************)
\* C23: a worker that is dead (its killed flag is set, or its lifetime has
\* elapsed) never dequeues or begins executing a further task, a worker
\* that expired while it was blocked waiting included: no step takes a dead
\* worker from waiting to performing a task.
C23_DeadWorkerTakesNoTask ==
    [][\A w \in WorkerIds :
          (wpc[w] = "wait" /\ wpc'[w] = "perform") => ~IsDead(w)]_vars

\* the worker threads executing a task, and those that will take the next
\* task put on the queue (they are in task_queue.get(), or about to call it)
Executing == {w \in WorkerIds : wpc[w] \in {"perform", "relogin", "retry", "finish", "signal"}}
AbleToDequeue == {w \in WorkerIds : wpc[w] = "wait"}

\* C24: in every reachable state the number of tasks being executed, and
\* the number of worker threads able to dequeue from the shared queue, is
\* at most num_workers, also after the health check has replaced dead
\* workers.
C24_AtMostNumWorkers ==
    /\ Cardinality(Executing) <= NumWorkers
    /\ Cardinality(AbleToDequeue) <= NumWorkers

\* the workers no longer in the pool
OutOfPool == Constructed \ Range(workers)

\* A Worker is constructed only by the caller that holds the lock, in its
\* health check, for the dead worker whose turn it is, and is appended to
\* that caller's new_workers.
ConstructedInHealthCheck ==
    nworkers' # nworkers =>
        \E t \in Tasks :
            /\ worker_lock = t
            /\ cpc[t] = "check"
            /\ IsDead(workers[Len(new_workers[t]) + 1])
            /\ nworkers' = nworkers + 1
            /\ new_workers'[t] = Append(new_workers[t], nworkers')

\* The pool is assigned only by the caller that holds the lock, from the
\* new_workers of its health check, which then releases the lock.
PoolAssignedInHealthCheck ==
    workers' # workers =>
        \E t \in Tasks :
            /\ worker_lock = t
            /\ workers' = new_workers[t]
            /\ worker_lock' = 0

\* At most one caller is in a health check, and it holds the lock; between
\* health checks every worker ever constructed is in the pool or was
\* replaced when dead, so that the number of workers constructed is
\* num_workers plus the number of dead workers replaced.
HealthChecksExclusive ==
    /\ \A t, u \in Tasks : (cpc[t] = "check" /\ cpc[u] = "check") => t = u
    /\ \A t \in Tasks : cpc[t] = "check" <=> worker_lock = t
    /\ worker_lock = 0 =>
          /\ Range(workers) \subseteq Constructed
          /\ \A i, j \in 1..Len(workers) : i # j => workers[i] # workers[j]
          /\ \A w \in OutOfPool : IsDead(w)
          /\ nworkers = NumWorkers + Cardinality(OutOfPool)

KilledNow(w) == ~killed[w] /\ killed'[w]

\* Worker w is between self.kill() and the end of finish_task.
FinishingFailure(w) == killed[w] /\ wpc[w] \in {"finish", "signal"}

\* Everything that belongs to the workers other than w is left as it is.
OthersUntouched(w) ==
    \A v \in WorkerIds \ {w} :
        /\ killed'[v] = killed[v]
        /\ logged_in'[v] = logged_in[v]
        /\ wrapped'[v] = wrapped[v]
        /\ wtask'[v] = wtask[v]
        /\ wresult'[v] = wresult[v]
        /\ wpc'[v] = wpc[v]

\* The results of the tasks other than t are left as they are.
OtherResultsUntouched(t) ==
    \A u \in Tasks \ {t} :
        /\ task_result'[u] = task_result[u]
        /\ task_ready'[u] = task_ready[u]

\* C26: the step that kills worker w after a task failure changes no other
\* worker's killed flag, session or in-progress task, no task's result,
\* and not the task queue; the steps with which the killed worker then
\* finishes the failed task change only that task's result and nothing of
\* the other workers or of the queue.
C26_FailureIsLocal ==
    [][\A w \in WorkerIds :
         /\ KilledNow(w) =>
               /\ OthersUntouched(w)
               /\ task_result' = task_result
               /\ task_ready' = task_ready
               /\ task_queue' = task_queue
               /\ workers' = workers
         /\ (FinishingFailure(w) /\ wpc'[w] # wpc[w]) =>
               /\ OthersUntouched(w)
               /\ OtherResultsUntouched(wtask[w])
               /\ task_queue' = task_queue
               /\ workers' = workers]_vars

\* A worker has just been killed by a failure while another live worker has
\* a task in progress on a logged-in session.
C26_Witness ==
    \E w \in WorkerIds : \E v \in WorkerIds \ {w} :
        /\ killed[w] /\ wpc[w] = "finish"
        /\ wresult[w] = Error("Exception", wtask[w], 1)
        /\ ~killed[v] /\ wpc[v] = "retry" /\ wtask[v] # wtask[w]
        /\ v \in Range(workers) /\ w \in Range(workers)

(***************************************************************************)
(* C27: what happens between the failed attempt and the retry              *)
(***************************************************************************)
\* A worker about to retry is on a session that is not logged in, and its
\* task has had exactly one attempt, which ended in RTAuthenticationError.
RetryStartsLoggedOut ==
    \A w \in WorkerIds :
        wpc[w] \in {"relogin", "retry"} =>
            /\ attempts[wtask[w]] = <<"RTAuthenticationError">>
            /\ (wpc[w] = "retry" => ~logged_in[w])

\* The worker's positions follow each other in the order: first attempt
\* (perform), logout (relogin), second attempt with its own login (retry).
RetryOrder(w) ==
    /\ (wpc'[w] = "relogin" /\ wpc[w] # "relogin") =>
          /\ wpc[w] = "perform"
          /\ attempts'[wtask[w]] = <<"RTAuthenticationError">>
    /\ (wpc'[w] = "retry" /\ wpc[w] # "retry") =>
          /\ wpc[w] = "relogin"
          /\ ~logged_in'[w]
          /\ attempts' = attempts
    /\ (wpc[w] = "retry" /\ wpc'[w] # "retry") =>
          /\ wpc'[w] = "finish"
          /\ Len(attempts'[wtask[w]]) = 2
          /\ attempts'[wtask[w]][1] = "RTAuthenticationError"
          /\ (attempts'[wtask[w]][2] = "ok" => logged_in'[w])
          /\ (logged_in'[w] =>
                 attempts'[wtask[w]][2] \in OperationOutcomes(TRUE))
    /\ (wpc[w] = "relogin" /\ wpc'[w] # "relogin") =>
          \/ wpc'[w] = "retry"
          \/ wpc'[w] = "finish" /\ killed'[w] /\ logged_in'[w]
                /\ attempts' = attempts

\* C27: between a first attempt that failed with RTAuthenticationError and
\* the retry, the worker calls logout once; the session is then not logged
\* in, so the login of the retry is a real one, and the operation of the
\* retry is invoked only after that login succeeded. The order is: failed
\* attempt, logout, login, second attempt.
C27_LogoutBetweenAttempts ==
    []RetryStartsLoggedOut /\ [][\A w \in WorkerIds : RetryOrder(w)]_vars

\* A retry succeeded: the task was attempted twice and the worker's
\* session is logged in again.
C27_Witness ==
    \E w \in WorkerIds :
        /\ wpc[w] = "finish"
        /\ attempts[wtask[w]] = <<"RTAuthenticationError", "ok">>
        /\ wresult[w] = Value(wtask[w], 2)
        /\ logged_in[w]
        /\ ~killed[w]

(***************************************************************************)
(* C28: the logged-in flag of a session                                    *)
(***************************************************************************)
\* The positions of the calls made so far.
Calls == 1..Len(content)

IsCall(i, name) == content[i].call.call = name

\* Call i is a login that succeeded (it was sent and returned True).
LoginSucceeded(i) ==
    /\ IsCall(i, "login")
    /\ content[i].result.sent
    /\ content[i].result.exc = "none"

\* Call i is a logout that returned (it raised nothing).
LogoutReturned(i) == IsCall(i, "logout") /\ content[i].result.exc = "none"

\* A request that requires authentication is sent only while the flag is
\* true; otherwise it raises RTAuthenticationError and nothing is sent.
AuthRequestsNeedFlag ==
    \A i \in Calls :
        (IsCall(i, "request") /\ content[i].call.require_auth) =>
            /\ content[i].result.sent => content[i].before
            /\ ~content[i].before =>
                  /\ ~content[i].result.sent
                  /\ content[i].result.exc = "RTAuthenticationError"
            /\ content[i].result.logged_in = content[i].before

\* A login that the server rejected (302) leaves the flag false.
RejectedLoginLeavesFalse ==
    \A i \in Calls :
        (IsCall(i, "login") /\ content[i].result.sent
            /\ content[i].call.reply = "302") =>
            /\ content[i].result.exc = "RTAuthenticationError"
            /\ ~content[i].result.logged_in

\* login while logged in and logout while logged out send nothing, return
\* False and leave the flag as it is.
NoOpCalls ==
    \A i \in Calls :
        ((IsCall(i, "login") /\ content[i].before)
            \/ (IsCall(i, "logout") /\ ~content[i].before)) =>
            /\ ~content[i].result.sent
            /\ content[i].result.exc = "none"
            /\ content[i].result.value = "False"
            /\ content[i].result.logged_in = content[i].before

\* C28 (as stated): ..., and the flag is true only between a login that
\* succeeded and the next logout call.
C28_FlagUntilNextLogout ==
    /\ AuthRequestsNeedFlag
    /\ RejectedLoginLeavesFalse
    /\ NoOpCalls
    /\ data.logged_in =>
          \E i \in Calls :
              /\ LoginSucceeded(i)
              /\ \A j \in Calls : j > i => ~IsCall(j, "logout")

\* C28 (amended): an authenticated request is sent only while the flag
\* is true and otherwise raises RTAuthenticationError unsent; a rejected
\* login leaves the flag false; login while logged in and logout while
\* logged out send nothing and change nothing; and the flag is true exactly
\* when a login succeeded and no logout has returned since (a logout that
\* raises leaves the flag true).
C28_FlagUntilLogoutReturns ==
    /\ AuthRequestsNeedFlag
    /\ RejectedLoginLeavesFalse
    /\ NoOpCalls
    /\ data.logged_in <=>
          \E i \in Calls :
              /\ LoginSucceeded(i)
              /\ \A j \in Calls : j > i => ~LogoutReturned(j)

\* A login succeeded, an authenticated request was sent, and a logout
\* returned: the flag is false again.
C28_Witness ==
    /\ Len(content) = 3
    /\ LoginSucceeded(1)
    /\ IsCall(2, "request") /\ content[2].call.require_auth
    /\ content[2].result.sent
    /\ LogoutReturned(3) /\ content[3].result.sent
    /\ ~data.logged_in

(***************************************************************************)
(* C29: multipart serialize followed by multipart parse                    *)
(***************************************************************************)
\* The Record r as from_string gives it back: the same names in the same
\* order, each with its string.
RawOf(r) == [j \in 1..Len(r) |-> <<r[j][1], StrOf(r[j][2])>>]

\* C29: for every MultiRecord M of k >= 1 Records with single-line string
\* values, RTMultipartData.from_string(M.serialize()) returns, has length
\* k, and its i-th Record equals the i-th Record of M.
C29_MultipartRoundTrip ==
    /\ stage # "raised"
    /\ stage = "raw" =>
          /\ Len(raw_data.items) = Len(input)
          /\ \A i \in 1..Len(input) : raw_data.items[i] = RawOf(input[i])

(***************************************************************************)
(* C30: the names yielded by the custom-field view can be read back        *)
(***************************************************************************)
\* The key k is a wrapped key of the pool.
IsWrappedKey(k) ==
    \E p \in 1..Len(ViewKeyPool) : ViewKeyPool[p].key = k /\ ViewKeyPool[p].custom

\* The items of the container d under wrapped keys, in order.
WrappedItems(d) == SelectSeq(d, LAMBDA it : IsWrappedKey(it[1]))

\* C30: the view yields one name for every wrapped key of the container, its
\* length is the number of wrapped keys, and reading the view under the
\* i-th yielded name returns the container's value under the i-th wrapped
\* key, also when that key's inner name ends with '?'.
C30_YieldedNamesReadBack ==
    /\ stage # "record" => Len(content) = Len(WrappedItems(data))
    /\ stage \in {"counted", "read"} =>
          raw_data.value = Len(WrappedItems(data))
    /\ stage = "read" =>
          /\ response.exc = "none"
          /\ response.value = WrappedItems(data)[input.index][2]

====
